---- MODULE Spec2Model ----
(***************************************************************************)
(* A model of the media encoding/export pipeline of VoxGem Studio:         *)
(*   - pcmToWav            (src/utils/audioUtils.ts)                       *)
(*   - decodeBase64        (src/utils/audioUtils.ts)                       *)
(*   - encode / decode     (src/components/ScriptAssistant.tsx)            *)
(*   - audioBlobToVideo    (src/utils/audioUtils.ts): the still-frame      *)
(*     word wrap and the event-driven audio+frame muxer;                   *)
(*   - App.handleGenerate, App.handleExportAll (src/App.tsx) and           *)
(*     AudioPlayer.handleDownloadMp4 (src/components/CinemaStudio.tsx):    *)
(*     the bulk-export packager and the single-record video download,      *)
(*     and the failure paths of the other user-triggered operations.       *)
(*                                                                         *)
(* Bytes are integers 0..255.  A byte buffer (Uint8Array, ArrayBuffer seen *)
(* through a DataView, Blob content) is a sequence of bytes; offset k of   *)
(* the code is index k+1 of the sequence.  A JavaScript number that can    *)
(* exceed 32 bits (the sample rate) is a little-endian sequence of         *)
(* NumBytes base-256 digits, so that the 32-bit width of the header fields *)
(* is modelled and not assumed.                                            *)
(***************************************************************************)
EXTENDS Integers, Sequences, FiniteSets, TLC

VARIABLES
    wavCalled,  \* pcmToWav has been called (wavIn, wavRate, wavOut are set)
    wavIn,      \* pcmData of the last pcmToWav call
    wavRate,    \* sampleRate of the last pcmToWav call (a Num)
    wavOut,     \* content of the Blob the last pcmToWav call returned
    b64Called,  \* encode has been called (b64In, b64Text are set)
    b64In,      \* bytes given to encode
    b64Text,    \* the base64 text encode returned
    b64Out,     \* bytes returned by the last decoder call on b64Text
    b64Via,     \* which decoder produced b64Out: "none", "decode", "decodeBase64"
    frameWords, \* text.split(' ') of the last still frame, as word widths
    frameDrawn, \* the ctx.fillText calls of the body text, in order
    mux,        \* the audioBlobToVideo invocations, by invocation number
    history,        \* App state: the generations, newest first
    isExporting,    \* App state
    exportProgress, \* App state: [current, total]
    exportTask,     \* the running handleExportAll call: position and locals
    archives,       \* the zip archives offered for download, in order
    toasts,         \* the showToast calls, in order
    player,         \* AudioPlayer: isGeneratingMp4 and the running download
    saved,          \* the single-record videos offered for download
    console,        \* the console.error calls, in order
    failures        \* the user-triggered operations that failed, in order

VARIABLES
    busy,       \* the busy flag of each remote operation (isGenerating, ...)
    calls,      \* the service calls the handlers are awaiting, oldest first
    results,    \* how many results each operation has added to its list
    remote,     \* the requests issued to the remote service, in order
    triggered,  \* how many times a handler has been called
    denied,     \* the operations that failed for want of a credential
    lastCall    \* the handler call the last step made, if it made one: its
                \* inputs and the state it was made in

opVars == <<busy, calls, results, remote, triggered, denied, lastCall>>

\* ScriptAssistant's live voice session
VARIABLES
    mounted,            \* the component is mounted
    isConnecting,
    isLiveMode,
    liveSessionRef,     \* the refs hold 0 for null, else the number of the
    streamRef,          \* startLiveSession call that made the object
    audioContextInRef,
    audioContextOutRef,
    nextStartTimeRef,
    sourcesRef,         \* positions in `scheduled` of the sources kept
    starts,             \* the calls of startLiveSession, and their connections
    openMedia,          \* the sessions, streams and audio contexts not closed
    clock,              \* currentTime of each call's output context
    scheduled,          \* the chunks given to source.start, and interruptions
    sinceStop,          \* stopLiveSession ran and startLiveSession did not since
    liveEntries         \* isConnecting at each setIsLiveMode(true)

liveVars == <<mounted, isConnecting, isLiveMode, liveSessionRef, streamRef,
              audioContextInRef, audioContextOutRef, nextStartTimeRef,
              sourcesRef, starts, openMedia, clock, scheduled, sinceStop,
              liveEntries>>

\* the object URLs of the history records
VARIABLES
    made,        \* the number of records made so far
    objectUrls,     \* the ids of the records whose audioUrl is not revoked
    lastRemoved     \* what the last step removed, and from which history

historyVars == <<made, objectUrls, lastRemoved>>

\* one call of generateVideo
VARIABLES
    video

videoVars == <<video>>

\* VoiceSelector's voice previews
VARIABLES
    previewAudioRef,    \* 0 for null, else the number of the Audio element
    hoverTimeoutRef,    \* <<>> for null, else the voice the timer will preview
    loadingVoiceId,     \* <<>> for null
    audioCache,         \* the voices with a cached preview URL
    previews,           \* the playVoicePreview calls awaiting generateSpeech
    previewCalls,       \* the number of playVoicePreview calls made
    audios,             \* the number of Audio elements made
    playing,            \* the Audio elements that are playing
    previewStopped      \* stopPreview ran and no preview was requested since

previewVars == <<previewAudioRef, hoverTimeoutRef, loadingVoiceId, audioCache,
                 previews, previewCalls, audios, playing, previewStopped>>

\* the toasts App displays
VARIABLES
    displayed,      \* the toasts state of App: each toast with the time since
                    \* it appeared and the time left on its dismiss timer
    published,      \* the number of showToast calls
    lastDismissed   \* the id the last step dismissed and the list it found

displayVars == <<displayed, published, lastDismissed>>

studioVars == <<opVars, liveVars, historyVars, videoVars, previewVars, displayVars>>
othersOfOps == <<liveVars, historyVars, videoVars, previewVars, displayVars>>
othersOfLive == <<busy, calls, results, remote, triggered, lastCall, historyVars, videoVars,
                  previewVars, displayVars>>
othersOfHistory == <<opVars, liveVars, videoVars, previewVars, displayVars>>
othersOfVideo == <<opVars, liveVars, historyVars, previewVars, displayVars>>
othersOfPreview == <<opVars, liveVars, historyVars, videoVars, displayVars>>
othersOfDisplay == <<opVars, liveVars, historyVars, videoVars, previewVars>>

appVars == <<history, isExporting, exportProgress, exportTask, archives,
             toasts, player, saved, console, failures>>

vars == <<wavCalled, wavIn, wavRate, wavOut,
          b64Called, b64In, b64Text, b64Out, b64Via,
          frameWords, frameDrawn, mux, appVars, studioVars>>

wavVars == <<wavCalled, wavIn, wavRate, wavOut>>
b64Vars == <<b64Called, b64In, b64Text, b64Out, b64Via>>
frameVars == <<frameWords, frameDrawn>>
\* the state of the media pipeline
coreVars == <<wavVars, b64Vars, frameVars, mux>>

(***************************************************************************)
(* Bounds of the model.                                                    *)
(***************************************************************************)
\* longest PCM buffer enumerated byte by byte
MaxPcmLen == 3
\* longest byte sequence given to the base64 codec
MaxB64Len == 4
\* number of base-256 digits kept for a JavaScript number
NumBytes == 6
\* most words in a still-frame text
MaxWords == 8
\* audioBlobToVideo invocations in one run
MaxInvocations == 1
\* most chunks a recorder delivers before it is stopped
MaxChunks == 2
\* most generations kept in the history
MaxRecords == 2
\* most failures of the operations that do not involve the muxer
MaxFailures == 1
\* most calls of the handlers of the remote operations
MaxCalls == 2

\* byte values the enumerated buffers are built from
PcmBytes == {0, 127, 255}
B64Bytes == {0, 77, 165, 255}

RECURSIVE SeqsUpTo(_, _)
SeqsUpTo(S, n) ==
    IF n = 0 THEN {<<>>}
    ELSE LET shorter == SeqsUpTo(S, n - 1)
         IN  shorter \cup {Append(s, x) : s \in {t \in shorter : Len(t) = n - 1}, x \in S}

(***************************************************************************)
(* JavaScript numbers as little-endian base-256 digit sequences.           *)
(***************************************************************************)
Pad(d) == [i \in 1..NumBytes |-> IF i <= Len(d) THEN d[i] ELSE 0]

RECURSIVE IntDigits(_)
IntDigits(n) == IF n = 0 THEN <<>> ELSE <<n % 256>> \o IntDigits(n \div 256)

\* the number n (0 <= n < 2^31) as a Num
NumOfInt(n) == Pad(IntDigits(n))

RECURSIVE MulDigits(_, _, _)
MulDigits(d, k, carry) ==
    IF d = <<>> THEN <<>>
    ELSE LET t == Head(d) * k + carry
         IN  <<t % 256>> \o MulDigits(Tail(d), k, t \div 256)

\* d * k for a small integer k
NumMul(d, k) == MulDigits(d, k, 0)

RECURSIVE DivDigits(_, _)
DivDigits(d, k) ==
    IF d = <<>> THEN [q |-> <<>>, r |-> 0]
    ELSE LET hi  == DivDigits(Tail(d), k)
             cur == hi.r * 256 + Head(d)
         IN  [q |-> <<cur \div k>> \o hi.q, r |-> cur % k]

\* d / k for a small integer k that divides d
NumDiv(d, k) == DivDigits(d, k).q

\* ToUint32 / ToUint16 / ToUint8 of an integral number: its low bytes
ToUint(d, nbytes) == [i \in 1..nbytes |-> d[i]]

(***************************************************************************)
(* DataView writes (src/utils/audioUtils.ts:20-46).                        *)
(***************************************************************************)
\* bytes written at byte offset `offset` of view
WriteBytes(view, offset, bytes) ==
    [i \in 1..Len(view) |->
        IF i > offset /\ i <= offset + Len(bytes) THEN bytes[i - offset] ELSE view[i]]

\* a mutant: the field is written big-endian (littleEndian left false)
setUint32BigEndian(view, offset, num) ==
    WriteBytes(view, offset, [i \in 1..4 |-> ToUint(num, 4)[5 - i]])

\* view.setUint32(offset, num, true)
setUint32(view, offset, num) == WriteBytes(view, offset, ToUint(num, 4))

\* view.setUint16(offset, num, true)
setUint16(view, offset, num) == WriteBytes(view, offset, ToUint(num, 2))

\* view.setUint8(offset, code)
setUint8(view, offset, code) == WriteBytes(view, offset, <<code % 256>>)

RECURSIVE writeStringFrom(_, _, _, _)
writeStringFrom(view, offset, string, i) ==
    IF i > Len(string) THEN view
    ELSE writeStringFrom(setUint8(view, offset + (i - 1), string[i]), offset, string, i + 1)

\* writeString(view, offset, string); string is the sequence of its char codes
writeString(view, offset, string) == writeStringFrom(view, offset, string, 1)

StrRIFF == <<82, 73, 70, 70>>
StrWAVE == <<87, 65, 86, 69>>
StrFmt  == <<102, 109, 116, 32>>
StrData == <<100, 97, 116, 97>>

(***************************************************************************)
(* pcmToWav (src/utils/audioUtils.ts:12-40).                               *)
(***************************************************************************)
numChannels == 1
bitsPerSample == 16
HeaderSize == 44

\* a mutant: the RIFF chunk size counts the whole file
RiffChunkSizeWholeFile(dataSize) == NumOfInt(HeaderSize + dataSize)

\* the value written at offset 4
RiffChunkSize(dataSize) == NumOfInt(36 + dataSize)

\* a mutant: the byte rate forgets the division by 8
byteRateBits(sampleRate) == NumMul(NumMul(sampleRate, numChannels), bitsPerSample)

\* const byteRate = (sampleRate * numChannels * bitsPerSample) / 8
byteRateOf(sampleRate) == NumDiv(NumMul(NumMul(sampleRate, numChannels), bitsPerSample), 8)

\* const blockAlign = (numChannels * bitsPerSample) / 8
blockAlign == (numChannels * bitsPerSample) \div 8

pcmToWav(pcmData, sampleRate) ==
    LET byteRate == byteRateOf(sampleRate)
        dataSize == Len(pcmData)
        buffer   == [i \in 1..(HeaderSize + dataSize) |-> 0]
        v1  == writeString(buffer, 0, StrRIFF)
        v2  == setUint32(v1, 4, RiffChunkSize(dataSize))
        v3  == writeString(v2, 8, StrWAVE)
        v4  == writeString(v3, 12, StrFmt)
        v5  == setUint32(v4, 16, NumOfInt(16))
        v6  == setUint16(v5, 20, NumOfInt(1))
        v7  == setUint16(v6, 22, NumOfInt(numChannels))
        v8  == setUint32(v7, 24, sampleRate)
        v9  == setUint32(v8, 28, byteRate)
        v10 == setUint16(v9, 32, NumOfInt(blockAlign))
        v11 == setUint16(v10, 34, NumOfInt(bitsPerSample))
        v12 == writeString(v11, 36, StrData)
        v13 == setUint32(v12, 40, NumOfInt(dataSize))
    IN  WriteBytes(v13, HeaderSize, pcmData)

\* the PCM buffers pcmToWav is called with
PcmInputs == SeqsUpTo(PcmBytes, MaxPcmLen)

\* the sample rates pcmToWav is called with: 1, 8000, 24000 (the default),
\* 2^31 - 1, 2^31, 2^32 - 1, 2^32 and 2^32 + 24000
SampleRates ==
    { NumOfInt(1), NumOfInt(8000), NumOfInt(24000),
      Pad(<<255, 255, 255, 127>>), Pad(<<0, 0, 0, 128>>),
      Pad(<<255, 255, 255, 255>>), Pad(<<0, 0, 0, 0, 1>>),
      Pad(<<192, 93, 0, 0, 1>>) }

\* one call of pcmToWav per behaviour
PcmToWavCall ==
    /\ ~wavCalled
    /\ \E pcmData \in PcmInputs, sampleRate \in SampleRates :
        /\ wavIn' = pcmData
        /\ wavRate' = sampleRate
        /\ wavOut' = pcmToWav(pcmData, sampleRate)
    /\ wavCalled' = TRUE
    /\ UNCHANGED <<b64Vars, frameVars, mux, appVars, studioVars>>

InitWav ==
    /\ wavCalled = FALSE
    /\ wavIn = <<>>
    /\ wavRate = NumOfInt(0)
    /\ wavOut = <<>>

(***************************************************************************)
(* The base64 codec.  A binary string is the sequence of its char codes.   *)
(* A base64 text is the sequence of its characters, each written as its    *)
(* index in "A-Za-z0-9+/" (0..63), with PadChar for '='.  btoa and atob    *)
(* are the host's: they are modelled by what the HTML standard says they   *)
(* do (forgiving-base64 encode and decode).                                *)
(***************************************************************************)
PadChar == 64
\* what a call that throws InvalidCharacterError yields (no byte is negative)
InvalidCharacterError == <<-1>>

RECURSIVE btoaFrom(_)
btoaFrom(s) ==
    IF Len(s) = 0 THEN <<>>
    ELSE IF Len(s) = 1 THEN
        <<s[1] \div 4, (s[1] % 4) * 16, PadChar, PadChar>>
    ELSE IF Len(s) = 2 THEN
        <<s[1] \div 4, (s[1] % 4) * 16 + s[2] \div 16, (s[2] % 16) * 4, PadChar>>
    ELSE
        <<s[1] \div 4, (s[1] % 4) * 16 + s[2] \div 16,
          (s[2] % 16) * 4 + s[3] \div 64, s[3] % 64>>
        \o btoaFrom(SubSeq(s, 4, Len(s)))

\* btoa(binary): throws when a char code is above 255
btoa(binary) ==
    IF \E i \in 1..Len(binary) : binary[i] > 255 THEN InvalidCharacterError
    ELSE btoaFrom(binary)

\* the text without its one or two trailing '=' when its length is a multiple of 4
StripPadding(t) ==
    IF Len(t) % 4 = 0 /\ Len(t) > 0 /\ t[Len(t)] = PadChar
    THEN IF t[Len(t) - 1] = PadChar THEN SubSeq(t, 1, Len(t) - 2)
         ELSE SubSeq(t, 1, Len(t) - 1)
    ELSE t

RECURSIVE atobFrom(_)
atobFrom(t) ==
    IF Len(t) = 0 THEN <<>>
    ELSE IF Len(t) = 2 THEN
        <<t[1] * 4 + t[2] \div 16>>
    ELSE IF Len(t) = 3 THEN
        <<t[1] * 4 + t[2] \div 16, (t[2] % 16) * 16 + t[3] \div 4>>
    ELSE
        <<t[1] * 4 + t[2] \div 16, (t[2] % 16) * 16 + t[3] \div 4, (t[3] % 4) * 64 + t[4]>>
        \o atobFrom(SubSeq(t, 5, Len(t)))

\* atob(text): throws on a length of 1 mod 4 and on a character outside the alphabet
atob(text) ==
    LET t == StripPadding(text)
    IN  IF Len(t) % 4 = 1 \/ (\E i \in 1..Len(t) : t[i] = PadChar)
        THEN InvalidCharacterError
        ELSE atobFrom(t)

\* String.fromCharCode(code)
fromCharCode(code) == code % 65536

\* a typed-array store bytes[i] = value
Uint8Store(value) == value % 256

RECURSIVE encodeLoop(_, _, _)
encodeLoop(bytes, i, binary) ==
    IF i > Len(bytes) THEN binary
    ELSE encodeLoop(bytes, i + 1, binary \o <<fromCharCode(bytes[i])>>)

\* a mutant: the loop stops one byte early
encodeDropsLast(bytes) ==
    btoa(encodeLoop(SubSeq(bytes, 1, Len(bytes) - 1), 1, <<>>))

\* encode (src/components/ScriptAssistant.tsx:21-28)
encode(bytes) == btoa(encodeLoop(bytes, 1, <<>>))

\* the loop shared by decode and decodeBase64: bytes[i] = binaryString.charCodeAt(i)
BinaryToBytes(binaryString) ==
    [i \in 1..Len(binaryString) |-> Uint8Store(binaryString[i])]

\* decode (src/components/ScriptAssistant.tsx:30-38)
decode(base64) ==
    LET binaryString == atob(base64)
    IN  IF binaryString = InvalidCharacterError THEN InvalidCharacterError
        ELSE BinaryToBytes(binaryString)

\* decodeBase64 (src/utils/audioUtils.ts:2-10)
decodeBase64(base64) ==
    LET binaryString == atob(base64)
    IN  IF binaryString = InvalidCharacterError THEN InvalidCharacterError
        ELSE BinaryToBytes(binaryString)

B64Inputs == SeqsUpTo(B64Bytes, MaxB64Len)

\* one call of encode per behaviour, then any number of decoder calls
EncodeCall ==
    /\ ~b64Called
    /\ \E bytes \in B64Inputs :
        /\ b64In' = bytes
        /\ b64Text' = encode(bytes)
    /\ b64Called' = TRUE
    /\ b64Out' = <<>>
    /\ b64Via' = "none"
    /\ UNCHANGED <<wavVars, frameVars, mux, appVars, studioVars>>

DecodeCall ==
    /\ b64Called
    /\ b64Out' = decode(b64Text)
    /\ b64Via' = "decode"
    /\ UNCHANGED <<b64Called, b64In, b64Text, wavVars, frameVars, mux, appVars, studioVars>>

DecodeBase64Call ==
    /\ b64Called
    /\ b64Out' = decodeBase64(b64Text)
    /\ b64Via' = "decodeBase64"
    /\ UNCHANGED <<b64Called, b64In, b64Text, wavVars, frameVars, mux, appVars, studioVars>>

InitB64 ==
    /\ b64Called = FALSE
    /\ b64In = <<>>
    /\ b64Text = <<>>
    /\ b64Out = <<>>
    /\ b64Via = "none"

(***************************************************************************)
(* The still frame's body text (src/utils/audioUtils.ts:85-107).           *)
(* A word is modelled by the width ctx.measureText gives it; a line is the *)
(* sequence of its words, each followed by one space, and measureText adds *)
(* the advances up.  A fillText call is [line, x, y].                      *)
(***************************************************************************)
width == 1280
height == 720
lineHeight == 45
\* advance of one space in the body font
SpaceAdvance == 20
\* widths of the words a text is made of: '' (an empty word), a word two of
\* which fit on a line, a word wider than a line
WordWidths == {0, 500, 1200}

maxWidth == width - 120

RECURSIVE measureText(_)
measureText(line) ==
    IF line = <<>> THEN 0 ELSE Head(line) + SpaceAdvance + measureText(Tail(line))

fillText(drawn, line, x, y) == Append(drawn, [line |-> line, x |-> x, y |-> y])

\* if (y > height - 100) break
PastBodyArea(y) == y > height - 100

\* the for loop from word n (0-based) on; returns the state it ends in
RECURSIVE WrapLoop(_, _, _, _, _)
WrapLoop(words, n, line, y, drawn) ==
    IF n >= Len(words) THEN [line |-> line, y |-> y, drawn |-> drawn]
    ELSE LET testLine  == Append(line, words[n + 1])
             testWidth == measureText(testLine)
             overflow  == testWidth > maxWidth /\ n > 0
             drawn2    == IF overflow THEN fillText(drawn, line, 60, y) ELSE drawn
             line2     == IF overflow THEN <<words[n + 1]>> ELSE testLine
             y2        == IF overflow THEN y + lineHeight ELSE y
         IN  IF PastBodyArea(y2)
             THEN [line |-> line2, y |-> y2, drawn |-> drawn2]
             ELSE WrapLoop(words, n + 1, line2, y2, drawn2)

\* the body text drawn for text.split(' ') = words
DrawBodyText(words) ==
    LET end == WrapLoop(words, 0, <<>>, height \div 2 - 50, <<>>)
    IN  fillText(end.drawn, end.line, 60, end.y)

\* text.split(' ') has at least one element
FrameTexts == SeqsUpTo(WordWidths, MaxWords) \ {<<>>}

\* one still frame per behaviour
RenderStillFrame ==
    /\ frameWords = <<>>
    /\ \E words \in FrameTexts :
        /\ frameWords' = words
        /\ frameDrawn' = DrawBodyText(words)
    /\ UNCHANGED <<wavVars, b64Vars, mux, appVars, studioVars>>

InitFrame ==
    /\ frameWords = <<>>
    /\ frameDrawn = <<>>

(***************************************************************************)
(* audioBlobToVideo (src/utils/audioUtils.ts:52-150).                      *)
(* One record per invocation holds the code's state (promise, chunks) and  *)
(* the state of the host objects the invocation creates (the Audio         *)
(* element, the object URL, the canvas capture, the AudioContext, the      *)
(* MediaRecorder).  `log` lists the calls and events in the order they     *)
(* happened; `emitted` lists the chunks the recorder delivered.            *)
(***************************************************************************)
Invocations == 1..MaxInvocations

\* the invocations made by the application: one per record of a bulk export
\* (App.tsx:110), then the one of the player's video download
\* (CinemaStudio.tsx:220)
ExportSlot(i) == MaxInvocations + i + 1
DownloadSlot == MaxInvocations + MaxRecords + 1
AppInvocations == (MaxInvocations + 1)..DownloadSlot

\* the texts the muxer is called with, as word widths
MuxTexts == {<<500>>, <<500, 1200, 0, 500>>}

IdleMux ==
    [ promise   |-> "unstarted",  \* unstarted, pending, resolved, rejected
      settles   |-> 0,            \* calls of resolve or reject
      result    |-> <<>>,         \* content of the Blob the promise resolved with
      mimeType  |-> "none",       \* const mimeType, the type of the recorder
      blobType  |-> "none",       \* type of the Blob built in recorder.onstop
      hostMp4   |-> FALSE,        \* MediaRecorder.isTypeSupported('video/mp4')
      rendered  |-> FALSE,        \* the still frame has been drawn
      frame     |-> <<>>,         \* the body text drawn
      audio     |-> "none",       \* none, loading, playRequested, playing,
                                  \* blocked, ended, error
      url       |-> "none",       \* none, live, revoked
      capture   |-> FALSE,        \* canvas.captureStream has been called
      audioCtx  |-> "none",       \* none, open, closed
      recorder  |-> "none",       \* none, recording, stopping, inactive
      finalData |-> FALSE,        \* the dataavailable event of stop() was fired
      chunks    |-> <<>>,         \* const chunks: BlobPart[]
      emitted   |-> <<>>,
      log       |-> <<>> ]

Logged(m, entries) == [m EXCEPT !.log = m.log \o entries]

\* resolve(value): settles a pending promise, a no-op otherwise
resolve(m, value) ==
    IF m.promise = "pending"
    THEN [m EXCEPT !.promise = "resolved", !.result = value, !.settles = m.settles + 1]
    ELSE [m EXCEPT !.settles = m.settles + 1]

\* reject(reason): settles a pending promise, a no-op otherwise
reject(m) ==
    IF m.promise = "pending"
    THEN [m EXCEPT !.promise = "rejected", !.settles = m.settles + 1]
    ELSE [m EXCEPT !.settles = m.settles + 1]

\* the promise executor (lines 53-112 and 148): words = text.split(' '),
\* hasCtx = canvas.getContext('2d') is not null
Executor(m, words, hasCtx, mp4) ==
    LET m0 == [m EXCEPT !.promise = "pending", !.hostMp4 = mp4]
    IN  IF ~hasCtx THEN Logged(reject(m0), <<"reject">>)
        ELSE Logged([m0 EXCEPT !.rendered = TRUE,
                               !.frame = DrawBodyText(words),
                               !.url = "live",
                               !.audio = "loading"],
                    <<"render", "createObjectURL">>)

\* a mutant: audio.play() is called before the recorder is created and started
OnCanPlayThroughPlayFirst(m) ==
    Logged([m EXCEPT !.capture = TRUE,
                     !.audioCtx = "open",
                     !.mimeType = IF m.hostMp4 THEN "video/mp4" ELSE "video/webm",
                     !.recorder = "recording",
                     !.audio = "playRequested"],
           <<"canplaythrough", "audio.play", "captureStream", "new AudioContext",
             "new MediaRecorder", "recorder.start">>)

\* audio.oncanplaythrough (lines 114-146)
OnCanPlayThrough(m) ==
    Logged([m EXCEPT !.capture = TRUE,
                     !.audioCtx = "open",
                     !.mimeType = IF m.hostMp4 THEN "video/mp4" ELSE "video/webm",
                     !.recorder = "recording",
                     !.audio = "playRequested"],
           <<"canplaythrough", "captureStream", "new AudioContext",
             "new MediaRecorder", "recorder.start", "audio.play">>)

\* a mutant: only the last chunk is kept
OnDataAvailableKeepsLast(m, data) ==
    Logged([m EXCEPT !.chunks = <<data>>], <<"dataavailable">>)

\* recorder.ondataavailable (line 132)
OnDataAvailable(m, data) ==
    Logged([m EXCEPT !.chunks = Append(m.chunks, data)], <<"dataavailable">>)

\* recorder.onstop (lines 133-137)
OnStop(m) ==
    LET finalBlob == m.chunks
    IN  Logged([resolve(m, finalBlob) EXCEPT !.url = "revoked", !.blobType = m.mimeType],
               <<"stop", "resolve", "revokeObjectURL">>)

\* audio.onended (lines 142-145)
OnEnded(m) ==
    Logged([m EXCEPT !.recorder = IF m.recorder = "recording" THEN "stopping" ELSE m.recorder,
                     !.audioCtx = "closed"],
           <<"ended", "recorder.stop", "audioCtx.close">>)

\* audio.onerror (line 148)
OnError(m) == Logged(reject(m), <<"error", "reject">>)

\* the next chunk of invocation i's recorder
NextChunk(m) == Len(m.emitted) + 1

MuxUnchanged == UNCHANGED <<wavVars, b64Vars, frameVars, appVars, studioVars>>

\* a call of audioBlobToVideo
AudioBlobToVideo(i, words, hasCtx, mp4) ==
    /\ mux[i].promise = "unstarted"
    /\ mux' = [mux EXCEPT ![i] = Executor(@, words, hasCtx, mp4)]
    /\ MuxUnchanged

\* the host fires canplaythrough on the loading audio
CanPlayThrough(i) ==
    /\ mux[i].audio = "loading"
    /\ mux' = [mux EXCEPT ![i] = OnCanPlayThrough(@)]
    /\ MuxUnchanged

\* the host fires error: the audio fails to load, or fails to decode later on
AudioError(i) ==
    /\ mux[i].audio \in {"loading", "playRequested", "playing"}
    /\ mux' = [mux EXCEPT ![i] = OnError([@ EXCEPT !.audio = "error"])]
    /\ MuxUnchanged

\* the host starts the playback audio.play() asked for
PlaybackStarts(i) ==
    /\ mux[i].audio = "playRequested"
    /\ mux' = [mux EXCEPT ![i] = Logged([@ EXCEPT !.audio = "playing"], <<"playing">>)]
    /\ MuxUnchanged

\* the host refuses the playback (the promise audio.play() returned rejects;
\* the code does not look at it)
PlayBlocked(i) ==
    /\ mux[i].audio = "playRequested"
    /\ mux' = [mux EXCEPT ![i] = Logged([@ EXCEPT !.audio = "blocked"], <<"play refused">>)]
    /\ MuxUnchanged

\* the recorder delivers a chunk while it records
DataAvailable(i) ==
    /\ mux[i].recorder = "recording"
    /\ Len(mux[i].emitted) < MaxChunks
    /\ mux' = [mux EXCEPT ![i] =
                 OnDataAvailable([@ EXCEPT !.emitted = Append(@, NextChunk(mux[i]))],
                                 NextChunk(mux[i]))]
    /\ MuxUnchanged

\* the playback reaches the end of the audio
Ended(i) ==
    /\ mux[i].audio = "playing"
    /\ mux' = [mux EXCEPT ![i] = OnEnded([@ EXCEPT !.audio = "ended"])]
    /\ MuxUnchanged

\* the stopped recorder delivers the data it still holds
FinalData(i) ==
    /\ mux[i].recorder = "stopping"
    /\ ~mux[i].finalData
    /\ mux' = [mux EXCEPT ![i] =
                 OnDataAvailable([@ EXCEPT !.emitted = Append(@, NextChunk(mux[i])),
                                           !.finalData = TRUE],
                                 NextChunk(mux[i]))]
    /\ MuxUnchanged

\* the stopped recorder fires stop
RecorderStopped(i) ==
    /\ mux[i].recorder = "stopping"
    /\ mux[i].finalData
    /\ mux' = [mux EXCEPT ![i] = OnStop([@ EXCEPT !.recorder = "inactive"])]
    /\ MuxUnchanged

InitMux == mux = [i \in Invocations \cup AppInvocations |-> IdleMux]

(***************************************************************************)
(* Strings.  A JavaScript string whose characters the code looks at is a   *)
(* sequence of one-character strings.                                      *)
(***************************************************************************)
Letters ==
    {"a", "b", "c", "d", "e", "f", "g", "h", "i", "j", "k", "l", "m",
     "n", "o", "p", "q", "r", "s", "t", "u", "v", "w", "x", "y", "z",
     "A", "B", "C", "D", "E", "F", "G", "H", "I", "J", "K", "L", "M",
     "N", "O", "P", "Q", "R", "S", "T", "U", "V", "W", "X", "Y", "Z"}

DigitChars == <<"0", "1", "2", "3", "4", "5", "6", "7", "8", "9">>

\* String(n) of a natural number, as in a template literal
RECURSIVE DecStr(_)
DecStr(n) ==
    IF n < 10 THEN <<DigitChars[n + 1]>>
    ELSE DecStr(n \div 10) \o <<DigitChars[(n % 10) + 1]>>

\* s.includes(sub)
includes(s, sub) ==
    \E k \in 1..(Len(s) - Len(sub) + 1) : SubSeq(s, k, k + Len(sub) - 1) = sub

\* s.slice(0, end)
slice(s, end) == SubSeq(s, 1, IF Len(s) < end THEN Len(s) ELSE end)

\* s.replace(/[^a-z0-9]/gi, '_')
replaceNonAlnum(s) ==
    [k \in 1..Len(s) |->
        IF s[k] \in Letters \cup {DigitChars[d] : d \in 1..10} THEN s[k] ELSE "_"]

StrMp4 == <<"m", "p", "4">>
StrWebm == <<"w", "e", "b", "m">>
StrWav == <<"w", "a", "v">>
StrWavAudio == <<"w", "a", "v", "_", "a", "u", "d", "i", "o">>
StrMp4Video == <<"m", "p", "4", "_", "v", "i", "d", "e", "o">>
StrManifestTxt == <<"m", "a", "n", "i", "f", "e", "s", "t", ".", "t", "x", "t">>
StrVoxgem == <<"v", "o", "x", "g", "e", "m", "-">>

\* the characters of a Blob's type
TypeChars(type) ==
    CASE type = "video/mp4"  -> <<"v", "i", "d", "e", "o", "/">> \o StrMp4
      [] type = "video/webm" -> <<"v", "i", "d", "e", "o", "/">> \o StrWebm
      [] OTHER               -> <<>>

\* a mutant: the extension does not depend on the type
extAlwaysMp4(type) == StrMp4

\* mp4Blob.type.includes('mp4') ? 'mp4' : 'webm'
\* (App.tsx:111, CinemaStudio.tsx:224)
extOf(type) == IF includes(TypeChars(type), StrMp4) THEN StrMp4 ELSE StrWebm

(***************************************************************************)
(* Generation records (src/unnamed/part_000, App.tsx:73-80).               *)
(***************************************************************************)
\* selectedVoice.id
VoiceIds == {<<"K", "o", "r", "e">>}
\* String(speechSpeed)
Speeds == {<<"1">>, <<"1", ".", "5">>}

\* `${selectedVoice.id} (${speechSpeed}x)`
voiceIdOf(voice, speed) == voice \o <<" ", "(">> \o speed \o <<"x", ")">>

\* the ids crypto.randomUUID() returns, in the order it returns them: all
\* begin with the same 8 characters, the case in which id.slice(0, 8) does
\* not tell two records apart
IdOf(n) == <<"a", "a", "a", "a", "a", "a", "a", "a", "-">> \o DecStr(n)

\* text.split(' ') of every generation, as word widths
GenWords == <<500>>

newGeneration(id, voice, speed) ==
    [ id      |-> id,
      text    |-> GenWords,
      voiceId |-> voiceIdOf(voice, speed),
      blob    |-> [type |-> "audio/wav", parts |-> <<"wav">> \o id] ]

(***************************************************************************)
(* JSZip: an archive is the sequence of its entries; file() under a name   *)
(* the archive already holds replaces that entry.                          *)
(***************************************************************************)
\* zip.file(name, data)
file(zip, name, data) ==
    LET entry == [name |-> name, dir |-> FALSE, data |-> data]
    IN  IF \E k \in 1..Len(zip) : zip[k].name = name
        THEN [k \in 1..Len(zip) |-> IF zip[k].name = name THEN entry ELSE zip[k]]
        ELSE Append(zip, entry)

\* zip.folder(name): a directory entry; the files added through the returned
\* object are named name + "/" + ...
folder(zip, name) ==
    IF \E k \in 1..Len(zip) : zip[k].name = name \o <<"/">>
    THEN zip
    ELSE Append(zip, [name |-> name \o <<"/">>, dir |-> TRUE,
                      data |-> [type |-> "", parts |-> <<>>]])

inFolder(name, filename) == name \o <<"/">> \o filename

(***************************************************************************)
(* App.handleExportAll (src/App.tsx:91-136).                               *)
(* exportTask holds the position of the running call (pc), the history it  *)
(* closed over (snapshot), the loop index i, the archive, the manifest and *)
(* the setExportProgress calls it made (reported).  An awaited promise     *)
(* resumes the call in a step of its own.                                  *)
(***************************************************************************)
Last(q) == q[Len(q)]

Blob(type, parts) == [type |-> type, parts |-> parts]

IdleTask ==
    [ pc       |-> "idle",   \* idle, returned, awaitMux, awaitZip, done, failed
      snapshot |-> <<>>,     \* const history of the render the handler is from
      i        |-> 0,
      zip      |-> <<>>,
      manifest |-> <<>>,
      reported |-> <<>> ]

\* a mutant: the handler has no guard on the empty history
EarlyReturnNever(h) == FALSE

\* if (history.length === 0) return;
EarlyReturn(h) == Len(h) = 0

\* a mutant: the entry names do not carry the index
baseFilenameNoIndex(i, gen) ==
    replaceNonAlnum(gen.voiceId) \o <<"_">> \o slice(gen.id, 8)

\* `${i + 1}_${safeName}_${gen.id.slice(0, 8)}`
baseFilename(i, gen) ==
    DecStr(i + 1) \o <<"_">> \o replaceNonAlnum(gen.voiceId) \o <<"_">> \o slice(gen.id, 8)

withExt(base, ext) == base \o <<".">> \o ext

\* the manifest text, one element per paragraph
ManifestHeader == [item |-> 0, voice |-> <<>>, files |-> <<>>]
manifestItem(i, gen, ext) ==
    [ item  |-> i + 1,
      voice |-> gen.voiceId,
      files |-> <<withExt(baseFilename(i, gen), StrWav), withExt(baseFilename(i, gen), ext)>> ]

\* a mutant: the reported count runs one ahead
progressAhead(prev, i) == [prev EXCEPT !.current = i + 2]

\* prev => ({ ...prev, current: i + 1 })
progressAfter(prev, i) == [prev EXCEPT !.current = i + 1]

\* the loop test, then either the part of an iteration before its await
\* (lines 105-110) or lines 120-122 up to the await of generateAsync
loopOrFinish(t) ==
    IF t.i < Len(t.snapshot)
    THEN LET gen == t.snapshot[t.i + 1]
         IN  [t EXCEPT !.zip = file(@, inFolder(StrWavAudio, withExt(baseFilename(t.i, gen), StrWav)),
                                    gen.blob),
                       !.pc = "awaitMux"]
    ELSE [t EXCEPT !.zip = file(@, StrManifestTxt, Blob("text/plain", t.manifest)),
                   !.pc = "awaitZip"]

\* lines 93-102, then the loop
startExport(h) ==
    loopOrFinish([IdleTask EXCEPT
        !.snapshot = h,
        !.zip = folder(folder(<<>>, StrWavAudio), StrMp4Video),
        !.manifest = <<ManifestHeader>>,
        !.reported = <<[current |-> 0, total |-> Len(h)]>>])

\* lines 111-117, after audioBlobToVideo resolved with mp4Blob
afterVideo(t, mp4Blob) ==
    LET gen == t.snapshot[t.i + 1]
        ext == extOf(mp4Blob.type)
    IN  [t EXCEPT !.zip = file(@, inFolder(StrMp4Video, withExt(baseFilename(t.i, gen), ext)),
                               mp4Blob),
                  !.manifest = Append(@, manifestItem(t.i, gen, ext)),
                  !.reported = Append(@, progressAfter(Last(@), t.i)),
                  !.i = @ + 1]

\* a mutant: a record whose video fails is left out and the loop goes on
resumeExportSkipsFailed(t, m) ==
    IF m.promise = "rejected"
    THEN loopOrFinish([t EXCEPT !.i = @ + 1])
    ELSE loopOrFinish(afterVideo(t, Blob(m.blobType, m.result)))

\* the call resumes after `await audioBlobToVideo(...)` of invocation m:
\* in the catch block if the promise rejected, at line 111 otherwise
resumeExport(t, m) ==
    IF m.promise = "rejected"
    THEN [t EXCEPT !.pc = "failed"]
    ELSE loopOrFinish(afterVideo(t, Blob(m.blobType, m.result)))

\* a mutant: the promise is not awaited
SettledOrNot(m) == TRUE

\* an awaited promise lets the call go on when it has settled
Settled(m) == m.promise \in {"resolved", "rejected"}

\* the invocations after the call of audioBlobToVideo task t makes, if any
StartVideo(t, hasCtx, mp4) ==
    IF t.pc = "awaitMux"
    THEN [mux EXCEPT ![ExportSlot(t.i)] = Executor(@, t.snapshot[t.i + 1].text, hasCtx, mp4)]
    ELSE mux

\* a settled promise resumes the call awaiting it before the host delivers
\* any other event
ContinuationDue ==
    \/ exportTask.pc = "awaitMux" /\ Settled(mux[ExportSlot(exportTask.i)])
    \/ player.pc = "awaitMux" /\ Settled(mux[DownloadSlot])

Toast(message, type) == [message |-> message, type |-> type]

\* the finally block: setExportProgress({ current: 0, total: 0 })
ProgressReset == [current |-> 0, total |-> 0]

\* handleExportAll is called
HandleExportAll(hasCtx, mp4) ==
    /\ ~ContinuationDue
    /\ exportTask.pc = "idle"
    /\ IF EarlyReturn(history)
       THEN /\ exportTask' = [exportTask EXCEPT !.pc = "returned"]
            /\ UNCHANGED <<isExporting, exportProgress, mux>>
       ELSE LET t1 == startExport(history)
            IN  /\ exportTask' = t1
                /\ isExporting' = TRUE
                /\ exportProgress' = Last(t1.reported)
                /\ mux' = StartVideo(t1, hasCtx, mp4)
    /\ UNCHANGED <<history, archives, toasts, player, saved, console, failures>>
    /\ UNCHANGED <<wavVars, b64Vars, frameVars, studioVars>>

\* the awaited audioBlobToVideo promise has settled: the call goes on to its
\* next await, or through catch and finally
ExportResumes(hasCtx, mp4) ==
    /\ exportTask.pc = "awaitMux"
    /\ Settled(mux[ExportSlot(exportTask.i)])
    /\ LET t1 == resumeExport(exportTask, mux[ExportSlot(exportTask.i)])
       IN  IF t1.pc = "failed"
           THEN /\ exportTask' = [t1 EXCEPT !.reported = Append(@, ProgressReset)]
                /\ toasts' = Append(toasts, Toast("Bulk export failed during video synthesis.", "error"))
                /\ failures' = Append(failures, "bulk export")
                /\ isExporting' = FALSE
                /\ exportProgress' = ProgressReset
                /\ UNCHANGED mux
           ELSE /\ exportTask' = t1
                /\ exportProgress' = Last(t1.reported)
                /\ mux' = StartVideo(t1, hasCtx, mp4)
                /\ UNCHANGED <<toasts, failures, isExporting>>
    /\ UNCHANGED <<history, archives, player, saved, console>>
    /\ UNCHANGED <<wavVars, b64Vars, frameVars, studioVars>>

\* zip.generateAsync resolved: lines 123-129, then finally
ZipGenerated ==
    /\ ~ContinuationDue
    /\ exportTask.pc = "awaitZip"
    /\ archives' = Append(archives, exportTask.zip)
    /\ toasts' = Append(toasts, Toast("Studio bundle export completed.", "success"))
    /\ exportTask' = [exportTask EXCEPT !.pc = "done", !.reported = Append(@, ProgressReset)]
    /\ isExporting' = FALSE
    /\ exportProgress' = ProgressReset
    /\ UNCHANGED <<history, player, saved, console, failures, mux>>
    /\ UNCHANGED <<wavVars, b64Vars, frameVars, studioVars>>

(***************************************************************************)
(* AudioPlayer.handleDownloadMp4 (src/components/CinemaStudio.tsx:217-235) *)
(* The player shows history[0] (App.tsx:298); its MP4 button is disabled   *)
(* while isGeneratingMp4 (CinemaStudio.tsx:320-323).                       *)
(***************************************************************************)
IdlePlayer ==
    [ isGeneratingMp4 |-> FALSE,
      pc              |-> "idle",   \* idle, awaitMux
      generation      |-> <<>> ]    \* the generation prop the handler closed over

\* a.download = `voxgem-${generation.id.slice(0, 8)}.${ext}`
downloadName(gen, ext) == withExt(StrVoxgem \o slice(gen.id, 8), ext)

\* the MP4 button of the player is clicked
HandleDownloadMp4(hasCtx, mp4) ==
    /\ ~ContinuationDue
    /\ history # <<>>
    /\ ~player.isGeneratingMp4
    /\ mux[DownloadSlot].promise = "unstarted"
    /\ player' = [isGeneratingMp4 |-> TRUE, pc |-> "awaitMux", generation |-> <<history[1]>>]
    /\ mux' = [mux EXCEPT ![DownloadSlot] = Executor(@, history[1].text, hasCtx, mp4)]
    /\ UNCHANGED <<history, isExporting, exportProgress, exportTask, archives,
                   toasts, saved, console, failures>>
    /\ UNCHANGED <<wavVars, b64Vars, frameVars, studioVars>>

\* the awaited audioBlobToVideo promise has settled: lines 221-229, or the
\* catch block; then finally
DownloadResumes ==
    /\ player.pc = "awaitMux"
    /\ Settled(mux[DownloadSlot])
    /\ LET m == mux[DownloadSlot]
           gen == player.generation[1]
       IN  IF m.promise = "rejected"
           THEN /\ console' = Append(console, "MP4 creation failed")
                /\ failures' = Append(failures, "single-record video export")
                /\ UNCHANGED saved
           ELSE /\ saved' = Append(saved, [name |-> downloadName(gen, extOf(m.blobType)),
                                           blob |-> Blob(m.blobType, m.result)])
                /\ UNCHANGED <<console, failures>>
    /\ player' = [player EXCEPT !.isGeneratingMp4 = FALSE, !.pc = "idle"]
    /\ UNCHANGED <<history, isExporting, exportProgress, exportTask, archives, toasts, mux>>
    /\ UNCHANGED <<wavVars, b64Vars, frameVars, studioVars>>

(***************************************************************************)
(* The other user-triggered operations: what each handler does when the    *)
(* call it awaits succeeds (speech synthesis only) or fails.               *)
(***************************************************************************)
\* App.handleGenerate, generateSpeech resolved (App.tsx:70-83)
GenerateSucceeds(voice, speed) ==
    /\ ~ContinuationDue
    /\ Len(history) < MaxRecords
    /\ history' = <<newGeneration(IdOf(Len(history) + 1), voice, speed)>> \o history
    /\ toasts' = Append(toasts, Toast("Audio synthesis successful!", "success"))
    /\ UNCHANGED <<isExporting, exportProgress, exportTask, archives, player,
                   saved, console, failures, mux>>
    /\ UNCHANGED <<wavVars, b64Vars, frameVars, studioVars>>

\* the catch block of a handler: the showToast and console.error calls it makes
Caught(operation, shown, logged) ==
    /\ ~ContinuationDue
    /\ Len(failures) < MaxFailures
    /\ failures' = Append(failures, operation)
    /\ toasts' = toasts \o shown
    /\ console' = console \o logged
    /\ UNCHANGED <<history, isExporting, exportProgress, exportTask, archives,
                   player, saved, mux>>
    /\ UNCHANGED <<wavVars, b64Vars, frameVars, studioVars>>

\* App.handleGenerate, generateSpeech rejected (App.tsx:84-85)
SpeechSynthesisFails ==
    Caught("speech synthesis",
           <<Toast("Failed to generate speech. Please try again.", "error")>>, <<>>)

\* VisualStudio.handleGenerate (App.tsx:663-664)
ImageGenerationFails ==
    Caught("image generation", <<Toast("Visual generation failed.", "error")>>, <<>>)

\* VisualStudio.handleUpscale (App.tsx:687-688)
UpscaleFails ==
    Caught("upscale", <<Toast("Upscaling failed.", "error")>>, <<>>)

\* CinemaStudio.handleGenerate (CinemaStudio.tsx:72-73)
CinemaGenerationFails ==
    Caught("cinema video generation", <<Toast("Video generation failed.", "error")>>, <<>>)

\* ScriptAssistant.handleSend (ScriptAssistant.tsx:113-115)
ChatMessageFails ==
    Caught("chat message",
           <<Toast("Intelligence connection error. Please try again.", "error")>>,
           <<"Chat error:">>)

\* VoiceSelector.playVoicePreview (App.tsx:426-427)
VoicePreviewFails ==
    Caught("voice preview", <<>>, <<"Preview failed">>)

\* the Bundle-All button is rendered with a non-empty history and disabled
\* while isExporting (App.tsx:274, 288-290)
ClickBundleAll(hasCtx, mp4) ==
    /\ history # <<>>
    /\ ~isExporting
    /\ HandleExportAll(hasCtx, mp4)

\* the host events of an invocation the application made, each delivered
\* when no continuation is due; the recorder is started without a timeslice
\* and delivers its data when it is stopped
HostCanPlayThrough(i) == ~ContinuationDue /\ CanPlayThrough(i)
HostAudioError(i) == ~ContinuationDue /\ AudioError(i)
HostPlaybackStarts(i) == ~ContinuationDue /\ PlaybackStarts(i)
HostPlayBlocked(i) == ~ContinuationDue /\ PlayBlocked(i)
HostEnded(i) == ~ContinuationDue /\ Ended(i)
HostFinalData(i) == ~ContinuationDue /\ FinalData(i)
HostRecorderStopped(i) == ~ContinuationDue /\ RecorderStopped(i)

InitApp ==
    /\ history = <<>>
    /\ isExporting = FALSE
    /\ exportProgress = [current |-> 0, total |-> 0]
    /\ exportTask = IdleTask
    /\ archives = <<>>
    /\ toasts = <<>>
    /\ player = IdlePlayer
    /\ saved = <<>>
    /\ console = <<>>
    /\ failures = <<>>

(***************************************************************************)
(* The handlers of the remote operations: App.handleGenerate               *)
(* (src/App.tsx:61-89), VisualStudio.handleGenerate and handleUpscale      *)
(* (src/App.tsx:638-692), CinemaStudio.handleGenerate                      *)
(* (src/components/CinemaStudio.tsx:39-78), ScriptAssistant.handleSend     *)
(* (src/components/ScriptAssistant.tsx:95-119), and the service functions  *)
(* they await (src/services/geminiService.ts).                             *)
(* `key` is what getApiKey() returns in the call, "" when none is set.     *)
(***************************************************************************)
StudioOps == {"speech", "image", "upscale", "cinema", "chat"}

Whitespace == {" ", "\n", "\t"}

\* s.trim()
RECURSIVE trim(_)
trim(s) ==
    IF s = <<>> THEN s
    ELSE IF s[1] \in Whitespace THEN trim(Tail(s))
    ELSE IF s[Len(s)] \in Whitespace THEN trim(SubSeq(s, 1, Len(s) - 1))
    ELSE s

\* !s.trim()
IsBlank(s) == trim(s) = <<>>

\* the texts typed into the editor, the prompt fields and the chat input
Texts == {<<>>, <<" ">>, <<" ", "\n", "\t">>, <<"h", "i">>, <<" ", "h", "i", " ">>}

Keys == {"", "key"}

\* the error each service function throws when getApiKey() returns ''
\* (geminiService.ts:16, 85, 184, 242)
MissingKeyMessage(op) ==
    CASE op = "speech"  -> "API Key is missing. Please check your environment configuration."
      [] op = "image"   -> "API Key is missing for visual synthesis."
      [] op = "upscale" -> "API Key required for Pro features."
      [] op = "cinema"  -> "API Key required for Video generation."

\* the toast of a handler's catch block for an error without a message of
\* its own
FailureMessage(op) ==
    CASE op = "speech"  -> "Failed to generate speech. Please try again."
      [] op = "image"   -> "Visual generation failed."
      [] op = "upscale" -> "Upscaling failed."
      [] op = "cinema"  -> "Video generation failed."
      [] op = "chat"    -> "Intelligence connection error. Please try again."

\* the toast after a result was added; handleSend shows none
SuccessToasts(op) ==
    CASE op = "speech"  -> <<Toast("Audio synthesis successful!", "success")>>
      [] op = "image"   -> <<Toast("Visual asset synthesized.", "success")>>
      [] op = "upscale" -> <<Toast("Upscaling successful. High-res version added.", "success")>>
      [] op = "cinema"  -> <<Toast("Cinematic rendering complete.", "success")>>
      [] op = "chat"    -> <<>>

\* a service function is called: it throws when there is no key, and issues
\* its request otherwise
ServiceCall(op, key) == [op |-> op, state |-> IF key = "" THEN "noKey" ELSE "requested"]

\* what a handler call is given, and the state it finds
CallState ==
    [busy |-> busy, calls |-> calls, results |-> results, remote |-> remote,
     history |-> history, toasts |-> toasts]
CallOf(op, text, has) == [op |-> op, text |-> text, has |-> has, before |-> CallState]
NoCall ==
    [op |-> "none", text |-> <<>>, has |-> FALSE,
     before |-> [busy |-> <<>>, calls |-> <<>>, results |-> <<>>, remote |-> <<>>,
                 history |-> <<>>, toasts |-> <<>>]]

OtherAppVars == <<isExporting, exportProgress, exportTask, archives, player,
                  saved, failures>>

\* a handler returns before doing anything but showing the toasts `shown`
Returns(shown) ==
    /\ toasts' = toasts \o shown
    /\ triggered' = triggered + 1
    /\ UNCHANGED <<busy, calls, results, remote, denied, history, console>>

\* a handler sets its busy flag, shows the toasts `shown` and awaits the
\* service function
Begins(op, key, shown) ==
    LET call == ServiceCall(op, key)
    IN  /\ busy' = [busy EXCEPT ![op] = TRUE]
        /\ calls' = Append(calls, call)
        /\ remote' = IF call.state = "requested" THEN Append(remote, op) ELSE remote
        /\ toasts' = toasts \o shown
        /\ triggered' = triggered + 1
        /\ UNCHANGED <<results, denied, history, console>>

\* a mutant: the text is not trimmed before it is tested
HandleGenerateUntrimmed(text, key) ==
    /\ triggered < MaxCalls
    /\ IF text = <<>>
       THEN Returns(<<Toast("Validation Error: Please enter some text to generate audio.", "error")>>)
       ELSE Begins("speech", key, <<>>)
    /\ lastCall' = CallOf("speech", text, FALSE)
    /\ UNCHANGED <<coreVars, OtherAppVars, othersOfOps>>

\* App.handleGenerate up to its await (App.tsx:61-70)
HandleGenerate(text, key) ==
    /\ triggered < MaxCalls
    /\ IF IsBlank(text)
       THEN Returns(<<Toast("Validation Error: Please enter some text to generate audio.", "error")>>)
       ELSE Begins("speech", key, <<>>)
    /\ lastCall' = CallOf("speech", text, FALSE)
    /\ UNCHANGED <<coreVars, OtherAppVars, othersOfOps>>

\* VisualStudio.handleGenerate up to its await (App.tsx:638-651);
\* hasRef: mainImageRef, a subject, styleRef or sceneRef is set
VisualHandleGenerate(prompt, hasRef, key) ==
    /\ triggered < MaxCalls
    /\ IF IsBlank(prompt) /\ ~hasRef
       THEN Returns(<<Toast("Generation Blocked: Please provide a prompt or any reference.", "error")>>)
       ELSE Begins("image", key, <<>>)
    /\ lastCall' = CallOf("image", prompt, hasRef)
    /\ UNCHANGED <<coreVars, OtherAppVars, othersOfOps>>

\* VisualStudio.handleUpscale up to its await (App.tsx:670-675)
HandleUpscale(hasSelectedImage, key) ==
    /\ triggered < MaxCalls
    /\ IF ~hasSelectedImage \/ busy["upscale"]
       THEN Returns(<<>>)
       ELSE Begins("upscale", key, <<Toast("Initiating 2K Master Upscale...", "info")>>)
    /\ lastCall' = CallOf("upscale", <<>>, hasSelectedImage)
    /\ UNCHANGED <<coreVars, OtherAppVars, othersOfOps>>

\* CinemaStudio.handleGenerate up to its await (CinemaStudio.tsx:39-59)
CinemaHandleGenerate(hasImage, key) ==
    /\ triggered < MaxCalls
    /\ IF ~hasImage \/ busy["cinema"]
       THEN Returns(IF ~hasImage
                    THEN <<Toast("Cinematics Blocked: Source image frame is required.", "error")>>
                    ELSE <<>>)
       ELSE Begins("cinema", key,
                   <<Toast("Beginning Cinematic Synthesis (Long Polling)...", "info")>>)
    /\ lastCall' = CallOf("cinema", <<>>, hasImage)
    /\ UNCHANGED <<coreVars, OtherAppVars, othersOfOps>>

\* an operation failed for want of a credential: the message shown, whether
\* a request had been issued, the local media resources acquired before
Denied(op, message, requested, acquired) ==
    [op |-> op, message |-> message, requested |-> requested, acquired |-> acquired]

\* ScriptAssistant.handleSend up to its await (ScriptAssistant.tsx:95-104);
\* hasChat: chatRef.current is not null, that is createAssistantChat() found a
\* key when the component was mounted (geminiService.ts:50-55).  Without a
\* chat the call of sendMessage throws a TypeError inside the try block, and
\* catch and finally run at once.
HandleSend(input, hasChat) ==
    /\ triggered < MaxCalls
    /\ IF IsBlank(input) \/ busy["chat"]
       THEN Returns(<<>>)
       ELSE IF hasChat
       THEN Begins("chat", "key", <<>>)
       ELSE /\ toasts' = Append(toasts, Toast(FailureMessage("chat"), "error"))
            /\ console' = Append(console, "Chat error:")
            /\ denied' = Append(denied, Denied("chat", FailureMessage("chat"), FALSE, {}))
            /\ triggered' = triggered + 1
            /\ UNCHANGED <<busy, calls, results, remote, history>>
    /\ lastCall' = CallOf("chat", input, hasChat)
    /\ UNCHANGED <<coreVars, OtherAppVars, othersOfOps>>

\* what the service function and the handler log with console.error when
\* the call fails (geminiService.ts:45, 170, 224; ScriptAssistant.tsx:114);
\* the key checks of speech, image and cinema are outside their try blocks
ConsoleOnFailure(call) ==
    CASE call.op = "speech" /\ call.state = "requested" -> <<"Speech generation error:">>
      [] call.op = "image" /\ call.state = "requested"  -> <<"Image generation error:">>
      [] call.op = "upscale"                            -> <<"Upscale error:">>
      [] call.op = "chat"                               -> <<"Chat error:">>
      [] OTHER                                          -> <<>>

RemoveAt(q, n) == SubSeq(q, 1, n - 1) \o SubSeq(q, n + 1, Len(q))

\* the awaited service call n settles and its handler runs to the end:
\* the result is added and announced, or catch shows the error; finally
\* resets the busy flag
CallSettles(n, ok) ==
    /\ n \in 1..Len(calls)
    /\ LET call == calls[n]
           op == call.op
       IN  /\ calls' = RemoveAt(calls, n)
           /\ busy' = [busy EXCEPT ![op] = FALSE]
           /\ IF call.state = "noKey"
              THEN /\ ~ok
                   /\ toasts' = Append(toasts, Toast(MissingKeyMessage(op), "error"))
                   /\ console' = console \o ConsoleOnFailure(call)
                   /\ denied' = Append(denied, Denied(op, MissingKeyMessage(op), FALSE, {}))
                   /\ UNCHANGED <<results, history>>
              ELSE IF ok
              THEN /\ toasts' = toasts \o SuccessToasts(op)
                   /\ results' = [results EXCEPT ![op] = @ + 1]
                   /\ history' = IF op = "speech"
                                 THEN <<newGeneration(IdOf(Len(history) + 1),
                                                      <<"K", "o", "r", "e">>, <<"1">>)>> \o history
                                 ELSE history
                   /\ UNCHANGED <<console, denied>>
              ELSE /\ toasts' = Append(toasts, Toast(FailureMessage(op), "error"))
                   /\ console' = console \o ConsoleOnFailure(call)
                   /\ UNCHANGED <<results, history, denied>>
    /\ lastCall' = NoCall
    /\ UNCHANGED <<remote, triggered>>
    /\ UNCHANGED <<coreVars, OtherAppVars, othersOfOps>>

(***************************************************************************)
(* The triggers the interface offers for the handlers: a disabled button   *)
(* delivers no click.                                                      *)
(***************************************************************************)
\* the generate button of the editor (App.tsx:233-235)
ClickGenerateSpeech(text, key) ==
    /\ ~(busy["speech"] \/ IsBlank(text))
    /\ HandleGenerate(text, key)

\* the generate button of the visual studio (App.tsx:909)
ClickGenerateImage(prompt, hasRef, key) ==
    /\ ~busy["image"]
    /\ VisualHandleGenerate(prompt, hasRef, key)

\* Enter without Shift in the prompt field of the visual studio
\* (App.tsx:907); the field is never disabled
EnterGenerateImage(prompt, hasRef, key) ==
    VisualHandleGenerate(prompt, hasRef, key) /\ TRUE

\* the upscale button over the selected image (App.tsx:857)
ClickUpscale(key) ==
    /\ ~busy["upscale"]
    /\ HandleUpscale(TRUE, key)

\* the generate button of the cinema studio (CinemaStudio.tsx:150)
ClickGenerateCinema(hasImage, key) ==
    /\ ~(busy["cinema"] \/ ~hasImage)
    /\ CinemaHandleGenerate(hasImage, key)

\* the send button of the assistant (ScriptAssistant.tsx:412-414)
ClickSend(input, hasChat) ==
    /\ ~(IsBlank(input) \/ busy["chat"])
    /\ HandleSend(input, hasChat)

\* Enter in the input field of the assistant (ScriptAssistant.tsx:408)
EnterSend(input, hasChat) ==
    HandleSend(input, hasChat) /\ TRUE

InitOps ==
    /\ busy = [op \in StudioOps |-> FALSE]
    /\ calls = <<>>
    /\ results = [op \in StudioOps |-> 0]
    /\ remote = <<>>
    /\ triggered = 0
    /\ denied = <<>>
    /\ lastCall = NoCall

(***************************************************************************)
(* The live voice session: startLiveSession and stopLiveSession            *)
(* (src/components/ScriptAssistant.tsx:121-267), the callbacks given to    *)
(* ai.live.connect, and the unmount cleanup (ScriptAssistant.tsx:84-86).   *)
(* One mounted instance of the component is modelled; its callbacks keep   *)
(* running after it is unmounted, and React then ignores their state       *)
(* updates.                                                                *)
(***************************************************************************)
MaxSessions == 2
MaxTime == 2
MaxScheduled == 3
Durations == {1, 2}

SessionIds == 1..MaxSessions

Max(a, b) == IF a >= b THEN a ELSE b

LiveOtherAppVars == <<isExporting, exportProgress, exportTask, archives, player,
                      saved, failures, history>>

\* React state updates of the component
SetFlags(live, connecting) ==
    /\ isLiveMode' = IF mounted THEN live ELSE isLiveMode
    /\ isConnecting' = IF mounted THEN connecting ELSE isConnecting

Media(kind, k) == <<kind, k>>

\* the objects the four refs point at
Referenced ==
    {Media("session", liveSessionRef), Media("stream", streamRef),
     Media("contextIn", audioContextInRef), Media("contextOut", audioContextOutRef)}

\* liveSessionRef.current.close(): the connection starts closing, and its
\* close event is delivered later
CloseSession(st) ==
    IF liveSessionRef # 0 /\ st[liveSessionRef].conn = "open"
    THEN [st EXCEPT ![liveSessionRef].conn = "closing"]
    ELSE st

\* stopLiveSession (ScriptAssistant.tsx:238-267), run on the calls st; it
\* leaves nextStartTimeRef and sourcesRef alone
stopLiveSession(st) ==
    /\ starts' = CloseSession(st)
    /\ openMedia' = openMedia \ Referenced
    /\ liveSessionRef' = 0
    /\ streamRef' = 0
    /\ audioContextInRef' = 0
    /\ audioContextOutRef' = 0
    /\ SetFlags(FALSE, FALSE)
    /\ sinceStop' = TRUE

\* the catch block of startLiveSession (ScriptAssistant.tsx:229-235)
StartFailed(st) ==
    /\ console' = Append(console, "Failed to start live session:")
    /\ stopLiveSession(st)

AccessDenied == "Access denied: Microphone is required."

\* startLiveSession up to its first await (ScriptAssistant.tsx:121-130).
\* key is process.env.API_KEY, "" when it is not set; whether the client's
\* constructor throws without a key is the library's choice.
StartLiveSession(key, ctorThrows) ==
    /\ mounted
    /\ ~(isConnecting \/ isLiveMode)
    /\ Len(starts) < MaxSessions
    /\ key # "" => ~ctorThrows
    /\ LET k == Len(starts) + 1
       IN  IF ctorThrows
           THEN /\ StartFailed(Append(starts, [pc |-> "done", conn |-> "none", key |-> key]))
                /\ toasts' = Append(toasts, Toast(AccessDenied, "error"))
                /\ denied' = Append(denied, Denied("live", AccessDenied, FALSE, {}))
                /\ UNCHANGED clock
           ELSE /\ starts' = Append(starts, [pc |-> "awaitMic", conn |-> "none", key |-> key])
                /\ isConnecting' = TRUE
                /\ audioContextInRef' = k
                /\ audioContextOutRef' = k
                /\ openMedia' = openMedia \cup {Media("contextIn", k), Media("contextOut", k)}
                /\ clock' = [clock EXCEPT ![k] = 0]
                /\ sinceStop' = FALSE
                /\ UNCHANGED <<isLiveMode, liveSessionRef, streamRef, toasts, console, denied>>
    /\ UNCHANGED <<mounted, nextStartTimeRef, sourcesRef, scheduled, liveEntries>>
    /\ UNCHANGED <<coreVars, LiveOtherAppVars, othersOfLive>>

\* getUserMedia resolves: the stream is kept and ai.live.connect is called
\* (ScriptAssistant.tsx:130-135, 227)
MicGranted(k) ==
    /\ k \in 1..Len(starts)
    /\ starts[k].pc = "awaitMic"
    /\ starts' = [starts EXCEPT ![k].pc = "awaitSession", ![k].conn = "connecting"]
    /\ streamRef' = k
    /\ openMedia' = openMedia \cup {Media("stream", k)}
    /\ UNCHANGED <<mounted, isConnecting, isLiveMode, liveSessionRef, audioContextInRef,
                   audioContextOutRef, nextStartTimeRef, sourcesRef, clock, scheduled,
                   sinceStop, liveEntries, toasts, console, denied>>
    /\ UNCHANGED <<coreVars, LiveOtherAppVars, othersOfLive>>

\* getUserMedia rejects: the catch block runs
MicDenied(k) ==
    /\ k \in 1..Len(starts)
    /\ starts[k].pc = "awaitMic"
    /\ StartFailed([starts EXCEPT ![k].pc = "done"])
    /\ toasts' = Append(toasts, Toast(AccessDenied, "error"))
    /\ UNCHANGED <<mounted, nextStartTimeRef, sourcesRef, clock, scheduled, liveEntries,
                   denied>>
    /\ UNCHANGED <<coreVars, LiveOtherAppVars, othersOfLive>>

\* the connection opens: onopen runs (ScriptAssistant.tsx:139-162), then the
\* awaited connect promise resolves and the session is kept (line 227).
\* onopen throws a TypeError after its state updates when the input context
\* or the stream is gone; whether the promise still resolves is the
\* library's choice.
ConnOpens(k, resolves) ==
    /\ k \in 1..Len(starts)
    /\ starts[k].conn = "connecting"
    /\ starts[k].key # ""
    /\ (audioContextInRef # 0 /\ streamRef # 0) => resolves
    /\ SetFlags(TRUE, FALSE)
    /\ liveEntries' = IF mounted THEN Append(liveEntries, isConnecting) ELSE liveEntries
    /\ toasts' = Append(toasts, Toast("Voice link established", "success"))
    /\ starts' = [starts EXCEPT ![k].conn = "open",
                                ![k].pc = IF resolves THEN "done" ELSE @]
    /\ liveSessionRef' = IF resolves THEN k ELSE liveSessionRef
    /\ openMedia' = openMedia \cup {Media("session", k)}
    /\ UNCHANGED <<mounted, streamRef, audioContextInRef, audioContextOutRef,
                   nextStartTimeRef, sourcesRef, clock, scheduled, sinceStop,
                   console, denied>>
    /\ UNCHANGED <<coreVars, LiveOtherAppVars, othersOfLive>>

\* the connection fails before it opens: onerror runs (lines 212-216);
\* when the connect promise rejects the catch block runs as well
ConnFails(k, rejects) ==
    /\ k \in 1..Len(starts)
    /\ starts[k].conn = "connecting"
    /\ stopLiveSession([starts EXCEPT ![k].conn = "closed",
                                      ![k].pc = IF rejects THEN "done" ELSE @])
    /\ console' = console \o <<"Live session error:">>
                  \o (IF rejects THEN <<"Failed to start live session:">> ELSE <<>>)
    /\ toasts' = toasts \o <<Toast("Voice session error occurred.", "error")>>
                 \o (IF rejects THEN <<Toast(AccessDenied, "error")>> ELSE <<>>)
    /\ denied' = IF starts[k].key = ""
                 THEN Append(denied, Denied("live", IF rejects THEN AccessDenied
                                                    ELSE "Voice session error occurred.",
                                            TRUE, {"audioContext", "microphone"}))
                 ELSE denied
    /\ UNCHANGED <<mounted, nextStartTimeRef, sourcesRef, clock, scheduled, liveEntries>>
    /\ UNCHANGED <<coreVars, LiveOtherAppVars, othersOfLive>>

\* an open connection reports an error: onerror runs; its close event follows
ConnErrors(k) ==
    /\ k \in 1..Len(starts)
    /\ starts[k].conn = "open"
    /\ stopLiveSession([starts EXCEPT ![k].conn = "closing"])
    /\ console' = Append(console, "Live session error:")
    /\ toasts' = Append(toasts, Toast("Voice session error occurred.", "error"))
    /\ UNCHANGED <<mounted, nextStartTimeRef, sourcesRef, clock, scheduled, liveEntries,
                   denied>>
    /\ UNCHANGED <<coreVars, LiveOtherAppVars, othersOfLive>>

\* the close event of a connection, closed by the server or by
\* stopLiveSession, is delivered: onclose runs (lines 208-211)
ConnCloses(k) ==
    /\ k \in 1..Len(starts)
    /\ starts[k].conn \in {"open", "closing"}
    /\ stopLiveSession([starts EXCEPT ![k].conn = "closed"])
    /\ toasts' = Append(toasts, Toast("Voice link closed", "info"))
    /\ UNCHANGED <<mounted, nextStartTimeRef, sourcesRef, clock, scheduled, liveEntries,
                   console, denied>>
    /\ UNCHANGED <<coreVars, LiveOtherAppVars, othersOfLive>>

\* the header button while it reads "stop" (ScriptAssistant.tsx:295-296)
ClickStopLive ==
    /\ mounted
    /\ isLiveMode /\ ~isConnecting
    /\ stopLiveSession(starts)
    /\ UNCHANGED <<mounted, nextStartTimeRef, sourcesRef, clock, scheduled, liveEntries,
                   toasts, console, denied>>
    /\ UNCHANGED <<coreVars, LiveOtherAppVars, othersOfLive>>

\* the user leaves the assistant tab (App.tsx:262-264): the effect cleanup
\* runs stopLiveSession (ScriptAssistant.tsx:84-86)
Unmount ==
    /\ mounted
    /\ mounted' = FALSE
    /\ starts' = CloseSession(starts)
    /\ openMedia' = openMedia \ Referenced
    /\ liveSessionRef' = 0
    /\ streamRef' = 0
    /\ audioContextInRef' = 0
    /\ audioContextOutRef' = 0
    /\ isLiveMode' = FALSE
    /\ isConnecting' = FALSE
    /\ sinceStop' = TRUE
    /\ UNCHANGED <<nextStartTimeRef, sourcesRef, clock, scheduled, liveEntries,
                   toasts, console, denied>>
    /\ UNCHANGED <<coreVars, LiveOtherAppVars, othersOfLive>>

Chunk(k, at, now, duration) ==
    [kind |-> "chunk", session |-> k, at |-> at, now |-> now, duration |-> duration]
Interruption(k) ==
    [kind |-> "interrupted", session |-> k, at |-> 0, now |-> 0, duration |-> 0]

\* onmessage (ScriptAssistant.tsx:163-207) for a message of connection k
\* with or without audio of the given duration and with or without the
\* interrupted mark; decodeAudioData has no await of its own, so the
\* handler is not interleaved with another event
LiveMessage(k, hasAudio, duration, interrupted) ==
    /\ k \in 1..Len(starts)
    /\ starts[k].conn = "open"
    /\ hasAudio \/ interrupted
    /\ Len(scheduled) < MaxScheduled
    /\ LET plays == hasAudio /\ audioContextOutRef # 0
           now == clock[audioContextOutRef]
           at == Max(nextStartTimeRef, now)
           log == IF plays THEN Append(scheduled, Chunk(k, at, now, duration))
                  ELSE scheduled
       IN  /\ scheduled' = IF interrupted THEN Append(log, Interruption(k)) ELSE log
           /\ nextStartTimeRef' = IF interrupted THEN 0
                                  ELSE IF plays THEN at + duration
                                  ELSE nextStartTimeRef
           /\ sourcesRef' = IF interrupted THEN {}
                            ELSE IF plays THEN sourcesRef \cup {Len(log)}
                            ELSE sourcesRef
    /\ UNCHANGED <<mounted, isConnecting, isLiveMode, liveSessionRef, streamRef,
                   audioContextInRef, audioContextOutRef, starts, openMedia, clock,
                   sinceStop, liveEntries, toasts, console, denied>>
    /\ UNCHANGED <<coreVars, LiveOtherAppVars, othersOfLive>>

\* the currentTime of an open output context advances
TimePasses(k) ==
    /\ Media("contextOut", k) \in openMedia
    /\ clock[k] < MaxTime
    /\ clock' = [clock EXCEPT ![k] = @ + 1]
    /\ UNCHANGED <<mounted, isConnecting, isLiveMode, liveSessionRef, streamRef,
                   audioContextInRef, audioContextOutRef, nextStartTimeRef, sourcesRef,
                   starts, openMedia, scheduled, sinceStop, liveEntries,
                   toasts, console, denied>>
    /\ UNCHANGED <<coreVars, LiveOtherAppVars, othersOfLive>>

InitLive ==
    /\ mounted = TRUE
    /\ isConnecting = FALSE
    /\ isLiveMode = FALSE
    /\ liveSessionRef = 0
    /\ streamRef = 0
    /\ audioContextInRef = 0
    /\ audioContextOutRef = 0
    /\ nextStartTimeRef = 0
    /\ sourcesRef = {}
    /\ starts = <<>>
    /\ openMedia = {}
    /\ clock = [k \in SessionIds |-> 0]
    /\ scheduled = <<>>
    /\ sinceStop = FALSE
    /\ liveEntries = <<>>

(***************************************************************************)
(* The session history: records are added by App.handleGenerate            *)
(* (src/App.tsx:70-83) and removed by App.removeHistoryItem                *)
(* (src/App.tsx:145-151), which the Delete buttons of GenerationHistory    *)
(* call (src/unnamed/part_001:40-46).                                      *)
(***************************************************************************)
MaxHistory == 3
MaxCreated == 4

HistoryOtherAppVars == <<isExporting, exportProgress, exportTask, archives, player,
                         saved, console, failures>>

NoRemoval == [id |-> <<>>, before |-> <<>>]

\* prev.filter(i => i.id !== id)
RECURSIVE without(_, _)
without(prev, id) ==
    IF prev = <<>> THEN <<>>
    ELSE IF Head(prev).id = id THEN without(Tail(prev), id)
    ELSE <<Head(prev)>> \o without(Tail(prev), id)

\* App.handleGenerate after generateSpeech resolved (App.tsx:70-83): the
\* object URL is created and the record is put in front
SpeechSucceeds(voice, speed) ==
    /\ Len(history) < MaxHistory
    /\ made < MaxCreated
    /\ made' = made + 1
    /\ objectUrls' = objectUrls \cup {IdOf(made + 1)}
    /\ history' = <<newGeneration(IdOf(made + 1), voice, speed)>> \o history
    /\ toasts' = Append(toasts, Toast("Audio synthesis successful!", "success"))
    /\ lastRemoved' = NoRemoval
    /\ UNCHANGED <<coreVars, HistoryOtherAppVars, othersOfHistory>>

\* App.removeHistoryItem (App.tsx:145-151)
removeHistoryItem(id) ==
    /\ objectUrls' = IF \E i \in 1..Len(history) : history[i].id = id
                     THEN objectUrls \ {id}
                     ELSE objectUrls
    /\ history' = without(history, id)
    /\ lastRemoved' = [id |-> id, before |-> history]
    /\ UNCHANGED <<made, toasts>>
    /\ UNCHANGED <<coreVars, HistoryOtherAppVars, othersOfHistory>>

\* the records GenerationHistory is given: history.slice(1), and only when
\* there is more than one record (App.tsx:319-328)
Listed == SubSeq(history, 2, Len(history))

\* the Delete button of the i-th listed record (part_001:40-46)
ClickDelete(i) ==
    /\ i \in 1..Len(Listed)
    /\ removeHistoryItem(Listed[i].id)

InitHistory ==
    /\ made = 0
    /\ objectUrls = {}
    /\ lastRemoved = NoRemoval

(***************************************************************************)
(* generateVideo (src/services/geminiService.ts:229-279): one call, from   *)
(* its start to the promise it returns being settled.                      *)
(***************************************************************************)
MaxPolls == 3

AspectRatios == {"16:9", "9:16"}
Resolutions == {"720p", "1080p"}

\* what generateVideos and getVideosOperation resolve with: done, and
\* whether response.generatedVideos[0].video.uri is there
Operations == {[done |-> FALSE, link |-> FALSE], [done |-> TRUE, link |-> FALSE],
               [done |-> TRUE, link |-> TRUE]}
NoOperation == [done |-> FALSE, link |-> FALSE]

\* how a request fails
RequestErrors == {"Requested entity was not found", "network error"}

NoLinkMessage == "Video generation failed: No download link returned."

IdleVideo ==
    [pc |-> "idle", aistudio |-> FALSE, aspectRatio |-> "16:9", resolution |-> "1080p",
     hasHandle |-> FALSE, operation |-> NoOperation, polls |-> 0, requests |-> <<>>,
     fetchedDone |-> TRUE, result |-> "none"]

VideoUnchanged == UNCHANGED <<coreVars, appVars, othersOfVideo>>

\* the promise is rejected with the error
Rejected(v, message) == [v EXCEPT !.pc = "settled", !.result = message]

\* the catch block (geminiService.ts:272-278)
Rethrown(v, message) ==
    IF message = "Requested entity was not found" /\ v.aistudio
    THEN [v EXCEPT !.pc = "awaitReselect"]
    ELSE Rejected(v, message)

\* a mutant: the loop is never entered
PollNever(operation) == FALSE

\* the while test of the polling loop (geminiService.ts:260)
PollAgain(operation) == ~operation.done

\* from the while test on (geminiService.ts:260-268), with the operation
\* just received
AfterOperation(v, operation) ==
    LET w == [v EXCEPT !.operation = operation, !.hasHandle = TRUE]
    IN  IF PollAgain(operation) THEN [w EXCEPT !.pc = "sleeping"]
        ELSE IF ~operation.link THEN Rethrown(w, NoLinkMessage)
        ELSE [w EXCEPT !.pc = "awaitFetch", !.requests = Append(@, "fetch"),
                       !.fetchedDone = operation.done]

\* from the key check on (geminiService.ts:241-246)
AfterKeySelection(v, key) ==
    IF key = "" THEN Rejected(v, MissingKeyMessage("cinema"))
    ELSE [v EXCEPT !.pc = "awaitStart", !.requests = Append(@, "generateVideos")]

\* generateVideo is called (geminiService.ts:229-246); aistudio: the host
\* page offers window.aistudio
GenerateVideo(aistudio, aspectRatio, resolution, key) ==
    /\ video.pc = "idle"
    /\ LET v == [video EXCEPT !.aistudio = aistudio, !.aspectRatio = aspectRatio,
                              !.resolution = resolution]
       IN  video' = IF aistudio THEN [v EXCEPT !.pc = "awaitHasKey"]
                    ELSE AfterKeySelection(v, key)
    /\ VideoUnchanged

\* aistudio.hasSelectedApiKey() resolves (geminiService.ts:236-239)
HasKeyResolves(hasKey, key) ==
    /\ video.pc = "awaitHasKey"
    /\ video' = IF hasKey THEN AfterKeySelection(video, key)
                ELSE [video EXCEPT !.pc = "awaitSelect"]
    /\ VideoUnchanged

\* aistudio.openSelectKey() resolves (geminiService.ts:238)
SelectKeyResolves(key) ==
    /\ video.pc = "awaitSelect"
    /\ video' = AfterKeySelection(video, key)
    /\ VideoUnchanged

\* generateVideos settles (geminiService.ts:246-258)
StartResponds(ok, operation, error) ==
    /\ video.pc = "awaitStart"
    /\ video' = IF ok THEN AfterOperation(video, operation) ELSE Rethrown(video, error)
    /\ VideoUnchanged

\* the 10 s timer fires and getVideosOperation is called
\* (geminiService.ts:261-262)
PollTimerFires ==
    /\ video.pc = "sleeping"
    /\ video.polls < MaxPolls
    /\ video' = [video EXCEPT !.pc = "awaitPoll", !.polls = @ + 1,
                              !.requests = Append(@, "getVideosOperation")]
    /\ VideoUnchanged

\* getVideosOperation settles (geminiService.ts:262)
PollResponds(ok, operation, error) ==
    /\ video.pc = "awaitPoll"
    /\ video' = IF ok THEN AfterOperation(video, operation) ELSE Rethrown(video, error)
    /\ VideoUnchanged

\* fetch and response.blob() settle (geminiService.ts:268-270)
FetchResponds(ok, error) ==
    /\ video.pc = "awaitFetch"
    /\ video' = IF ok THEN [video EXCEPT !.pc = "settled", !.result = "url"]
                ELSE Rethrown(video, error)
    /\ VideoUnchanged

\* aistudio.openSelectKey() of the catch block resolves
\* (geminiService.ts:274-275)
ReselectResolves ==
    /\ video.pc = "awaitReselect"
    /\ video' = Rejected(video, "Project not found. Please re-select a paid project API key.")
    /\ VideoUnchanged

InitVideo == video = IdleVideo

(***************************************************************************)
(* The voice previews of VoiceSelector (src/App.tsx:379-442).              *)
(***************************************************************************)
MaxPreviews == 3

PreviewVoices == {<<"K", "o", "r", "e">>, <<"P", "u", "c", "k">>}

PreviewOtherAppVars == <<history, isExporting, exportProgress, exportTask, archives,
                         toasts, player, saved, failures>>

\* new Audio(url); previewAudioRef.current = audio; await audio.play()
\* (App.tsx:421-425)
PlayAudio ==
    /\ audios' = audios + 1
    /\ previewAudioRef' = audios + 1
    /\ playing' = playing \cup {audios + 1}

\* playVoicePreview up to its await (App.tsx:409-425): a cached voice is
\* played at once, another awaits generateSpeech
playVoicePreview(voice) ==
    /\ previewCalls' = previewCalls + 1
    /\ loadingVoiceId' = voice
    /\ IF voice \in audioCache
       THEN PlayAudio /\ UNCHANGED previews
       ELSE /\ previews' = Append(previews, voice)
            /\ UNCHANGED <<audios, previewAudioRef, playing>>
    /\ UNCHANGED audioCache

\* a pointer enters a voice entry (App.tsx:432-436)
HandleMouseEnter(voice) ==
    /\ hoverTimeoutRef' = voice
    /\ previewStopped' = FALSE
    /\ UNCHANGED <<previewAudioRef, loadingVoiceId, audioCache, previews, previewCalls,
                   audios, playing, console>>
    /\ UNCHANGED <<coreVars, PreviewOtherAppVars, othersOfPreview>>

\* the 450 ms timer of handleMouseEnter fires (App.tsx:433-435)
HoverTimerFires ==
    /\ hoverTimeoutRef # <<>>
    /\ previewCalls < MaxPreviews
    /\ playVoicePreview(hoverTimeoutRef)
    /\ UNCHANGED <<hoverTimeoutRef, previewStopped, console>>
    /\ UNCHANGED <<coreVars, PreviewOtherAppVars, othersOfPreview>>

\* stopPreview (App.tsx:397-407), called when the pointer leaves the entry
StopPreview ==
    /\ playing' = playing \ {previewAudioRef}
    /\ previewAudioRef' = 0
    /\ hoverTimeoutRef' = <<>>
    /\ loadingVoiceId' = <<>>
    /\ previewStopped' = TRUE
    /\ UNCHANGED <<audioCache, previews, previewCalls, audios, console>>
    /\ UNCHANGED <<coreVars, PreviewOtherAppVars, othersOfPreview>>

\* the play button of a voice entry (App.tsx:438-442): stopPreview, then
\* playVoicePreview
HandleManualPlay(voice) ==
    /\ previewCalls < MaxPreviews
    /\ hoverTimeoutRef' = <<>>
    /\ previewStopped' = FALSE
    /\ previewCalls' = previewCalls + 1
    /\ loadingVoiceId' = voice
    /\ IF voice \in audioCache
       THEN /\ audios' = audios + 1
            /\ previewAudioRef' = audios + 1
            /\ playing' = (playing \ {previewAudioRef}) \cup {audios + 1}
            /\ UNCHANGED previews
       ELSE /\ previews' = Append(previews, voice)
            /\ previewAudioRef' = 0
            /\ playing' = playing \ {previewAudioRef}
            /\ UNCHANGED audios
    /\ UNCHANGED <<audioCache, console>>
    /\ UNCHANGED <<coreVars, PreviewOtherAppVars, othersOfPreview>>

\* the generateSpeech call of the n-th waiting playVoicePreview settles
\* (App.tsx:416-428)
PreviewSpeechSettles(n, ok) ==
    /\ n \in 1..Len(previews)
    /\ previews' = RemoveAt(previews, n)
    /\ IF ok
       THEN /\ audioCache' = audioCache \cup {previews[n]}
            /\ PlayAudio
            /\ UNCHANGED <<loadingVoiceId, console>>
       ELSE /\ console' = Append(console, "Preview failed")
            /\ loadingVoiceId' = <<>>
            /\ UNCHANGED <<audioCache, audios, previewAudioRef, playing>>
    /\ UNCHANGED <<hoverTimeoutRef, previewCalls, previewStopped>>
    /\ UNCHANGED <<coreVars, PreviewOtherAppVars, othersOfPreview>>

\* a preview plays to its end: audio.onended (App.tsx:423)
PreviewEnded(a) ==
    /\ a \in playing
    /\ playing' = playing \ {a}
    /\ loadingVoiceId' = <<>>
    /\ UNCHANGED <<previewAudioRef, hoverTimeoutRef, audioCache, previews, previewCalls,
                   audios, previewStopped, console>>
    /\ UNCHANGED <<coreVars, PreviewOtherAppVars, othersOfPreview>>

\* the speed slider moves: the cache is emptied (App.tsx:390-395)
SpeedChanges ==
    /\ audioCache # {}
    /\ audioCache' = {}
    /\ UNCHANGED <<previewAudioRef, hoverTimeoutRef, loadingVoiceId, previews, previewCalls,
                   audios, playing, previewStopped, console>>
    /\ UNCHANGED <<coreVars, PreviewOtherAppVars, othersOfPreview>>

InitPreview ==
    /\ previewAudioRef = 0
    /\ hoverTimeoutRef = <<>>
    /\ loadingVoiceId = <<>>
    /\ audioCache = {}
    /\ previews = <<>>
    /\ previewCalls = 0
    /\ audios = 0
    /\ playing = {}
    /\ previewStopped = FALSE

(***************************************************************************)
(* The displayed toasts: showToast (src/utils/toast.ts:10-19), the         *)
(* listener of App (src/App.tsx:53-59), the Toast component and its        *)
(* dismiss timer (src/App.tsx:15-19) and the list App renders              *)
(* (src/App.tsx:157-160).  Time is counted in ticks; the timer runs        *)
(* DismissAfter ticks.                                                     *)
(***************************************************************************)
MaxToasts == 3
DismissAfter == 2
MaxAge == 4

ToastIds == 1..MaxToasts

NoDismissal == [id |-> 0, before |-> <<>>]

DisplayUnchanged == UNCHANGED <<coreVars, appVars, othersOfDisplay>>

\* App renders: every Toast is handed a new onDismiss function
\* (App.tsx:159), so the effect of each Toast clears its timer and sets a
\* new one (App.tsx:16-19)
Rendered(list) == [i \in 1..Len(list) |-> [list[i] EXCEPT !.timer = DismissAfter]]

\* prev.filter(x => x.id !== id) (App.tsx:159)
RECURSIVE dismiss(_, _)
dismiss(prev, id) ==
    IF prev = <<>> THEN <<>>
    ELSE IF Head(prev).id = id THEN dismiss(Tail(prev), id)
    ELSE <<Head(prev)>> \o dismiss(Tail(prev), id)

\* showToast is called: the listener appends the toast and App renders
ShowToast ==
    /\ published < MaxToasts
    /\ published' = published + 1
    /\ displayed' = Rendered(Append(displayed,
                                    [id |-> published + 1, age |-> 0, timer |-> DismissAfter]))
    /\ lastDismissed' = NoDismissal
    /\ DisplayUnchanged

\* the timer of a toast fires: onDismiss(toast.id)
DismissTimerFires(i) ==
    /\ i \in 1..Len(displayed)
    /\ displayed[i].timer = 0
    /\ displayed' = Rendered(dismiss(displayed, displayed[i].id))
    /\ lastDismissed' = [id |-> displayed[i].id, before |-> displayed]
    /\ UNCHANGED published
    /\ DisplayUnchanged

\* the close button of a toast (App.tsx:32)
ClickDismiss(i) ==
    /\ i \in 1..Len(displayed)
    /\ displayed' = Rendered(dismiss(displayed, displayed[i].id))
    /\ lastDismissed' = [id |-> displayed[i].id, before |-> displayed]
    /\ UNCHANGED published
    /\ DisplayUnchanged

\* App renders for another reason: the text, the tab, the history or the
\* export progress changed
AppRenders ==
    /\ displayed # Rendered(displayed)
    /\ displayed' = Rendered(displayed)
    /\ lastDismissed' = NoDismissal
    /\ UNCHANGED published
    /\ DisplayUnchanged

\* time passes: a timer that has run out fires before more time passes
Tick ==
    /\ displayed # <<>>
    /\ \A i \in 1..Len(displayed) : displayed[i].timer > 0 /\ displayed[i].age < MaxAge
    /\ displayed' = [i \in 1..Len(displayed) |->
                        [displayed[i] EXCEPT !.age = @ + 1, !.timer = @ - 1]]
    /\ lastDismissed' = NoDismissal
    /\ UNCHANGED published
    /\ DisplayUnchanged

InitDisplay ==
    /\ displayed = <<>>
    /\ published = 0
    /\ lastDismissed = NoDismissal

InitStudio == InitOps /\ InitLive /\ InitHistory /\ InitVideo /\ InitPreview /\ InitDisplay

(***************************************************************************)
(* Specifications.                                                         *)
(***************************************************************************)
Init == InitWav /\ InitB64 /\ InitFrame /\ InitMux /\ InitApp /\ InitStudio

NextWav == PcmToWavCall

NextB64 ==
    \/ EncodeCall
    \/ DecodeCall
    \/ DecodeBase64Call

NextFrame == RenderStillFrame

NextMux ==
    \E i \in Invocations :
        \/ \E words \in MuxTexts, hasCtx \in BOOLEAN, mp4 \in BOOLEAN :
               AudioBlobToVideo(i, words, hasCtx, mp4)
        \/ CanPlayThrough(i)
        \/ AudioError(i)
        \/ PlaybackStarts(i)
        \/ PlayBlocked(i)
        \/ DataAvailable(i)
        \/ Ended(i)
        \/ FinalData(i)
        \/ RecorderStopped(i)

\* calls of pcmToWav
SpecWav == Init /\ [][NextWav]_vars

\* calls of the base64 codec
SpecB64 == Init /\ [][NextB64]_vars

\* still frames
SpecFrame == Init /\ [][NextFrame]_vars

\* muxer invocations, the host's events in any order it can produce
SpecMux == Init /\ [][NextMux]_vars

\* the host delivers every event that stays due
SpecMuxFair == SpecMux /\ WF_vars(NextMux)

\* handleExportAll called with any history, the muxer driven by the host
NextPackager ==
    \/ \E voice \in VoiceIds, speed \in Speeds : GenerateSucceeds(voice, speed)
    \/ \E hasCtx \in BOOLEAN, mp4 \in BOOLEAN : HandleExportAll(hasCtx, mp4)
    \/ \E hasCtx \in BOOLEAN, mp4 \in BOOLEAN : ExportResumes(hasCtx, mp4)
    \/ ZipGenerated
    \/ \E i \in AppInvocations \ {DownloadSlot} :
        \/ HostCanPlayThrough(i)
        \/ HostAudioError(i)
        \/ HostPlaybackStarts(i)
        \/ HostPlayBlocked(i)
        \/ HostEnded(i)
        \/ HostFinalData(i)
        \/ HostRecorderStopped(i)

SpecPackager == Init /\ [][NextPackager]_vars

\* the application as its user interface lets it be driven
NextApp ==
    \/ \E voice \in VoiceIds, speed \in Speeds : GenerateSucceeds(voice, speed)
    \/ \E hasCtx \in BOOLEAN, mp4 \in BOOLEAN : ClickBundleAll(hasCtx, mp4)
    \/ \E hasCtx \in BOOLEAN, mp4 \in BOOLEAN : ExportResumes(hasCtx, mp4)
    \/ ZipGenerated
    \/ \E hasCtx \in BOOLEAN, mp4 \in BOOLEAN : HandleDownloadMp4(hasCtx, mp4)
    \/ DownloadResumes
    \/ \E i \in AppInvocations :
        \/ HostCanPlayThrough(i)
        \/ HostAudioError(i)
        \/ HostPlaybackStarts(i)
        \/ HostPlayBlocked(i)
        \/ HostEnded(i)
        \/ HostFinalData(i)
        \/ HostRecorderStopped(i)

SpecApp == Init /\ [][NextApp]_vars

\* the application, and the failures of the operations that do not involve
\* the muxer
NextOps ==
    \/ NextApp
    \/ SpeechSynthesisFails
    \/ ImageGenerationFails
    \/ UpscaleFails
    \/ CinemaGenerationFails
    \/ ChatMessageFails
    \/ VoicePreviewFails

SpecOps == Init /\ [][NextOps]_vars

\* the handlers of the remote operations, called with any input
NextHandlers ==
    \/ \E text \in Texts, key \in Keys : HandleGenerate(text, key)
    \/ \E prompt \in Texts, hasRef \in BOOLEAN, key \in Keys :
           VisualHandleGenerate(prompt, hasRef, key)
    \/ \E hasSelectedImage \in BOOLEAN, key \in Keys : HandleUpscale(hasSelectedImage, key)
    \/ \E hasImage \in BOOLEAN, key \in Keys : CinemaHandleGenerate(hasImage, key)
    \/ \E input \in Texts, hasChat \in BOOLEAN : HandleSend(input, hasChat)
    \/ \E n \in 1..MaxCalls, ok \in BOOLEAN : CallSettles(n, ok)

SpecHandlers == Init /\ [][NextHandlers]_vars

NextStudioUI ==
    \/ \E text \in Texts, key \in Keys : ClickGenerateSpeech(text, key)
    \/ \E prompt \in Texts, hasRef \in BOOLEAN, key \in Keys : ClickGenerateImage(prompt, hasRef, key)
    \/ \E prompt \in Texts, hasRef \in BOOLEAN, key \in Keys : EnterGenerateImage(prompt, hasRef, key)
    \/ \E key \in Keys : ClickUpscale(key)
    \/ \E hasImage \in BOOLEAN, key \in Keys : ClickGenerateCinema(hasImage, key)
    \/ \E input \in Texts, hasChat \in BOOLEAN : ClickSend(input, hasChat)
    \/ \E input \in Texts, hasChat \in BOOLEAN : EnterSend(input, hasChat)
    \/ \E n \in 1..MaxCalls, ok \in BOOLEAN : CallSettles(n, ok)

SpecStudioUI == Init /\ [][NextStudioUI]_vars

NextHistory ==
    \/ \E voice \in VoiceIds, speed \in Speeds : SpeechSucceeds(voice, speed)
    \/ \E i \in 1..MaxHistory : ClickDelete(i)

SpecHistory == Init /\ [][NextHistory]_vars

NextVideo ==
    \/ \E aistudio \in BOOLEAN, aspectRatio \in AspectRatios, resolution \in Resolutions,
          key \in Keys : GenerateVideo(aistudio, aspectRatio, resolution, key)
    \/ \E hasKey \in BOOLEAN, key \in Keys : HasKeyResolves(hasKey, key)
    \/ \E key \in Keys : SelectKeyResolves(key)
    \/ \E ok \in BOOLEAN, operation \in Operations, error \in RequestErrors :
          StartResponds(ok, operation, error)
    \/ PollTimerFires
    \/ \E ok \in BOOLEAN, operation \in Operations, error \in RequestErrors :
          PollResponds(ok, operation, error)
    \/ \E ok \in BOOLEAN, error \in RequestErrors : FetchResponds(ok, error)
    \/ ReselectResolves

SpecVideo == Init /\ [][NextVideo]_vars

NextPreview ==
    \/ \E voice \in PreviewVoices : HandleMouseEnter(voice)
    \/ HoverTimerFires
    \/ StopPreview
    \/ \E voice \in PreviewVoices : HandleManualPlay(voice)
    \/ \E n \in 1..MaxPreviews, ok \in BOOLEAN : PreviewSpeechSettles(n, ok)
    \/ \E a \in 1..MaxPreviews : PreviewEnded(a)
    \/ SpeedChanges

SpecPreview == Init /\ [][NextPreview]_vars

NextDisplay ==
    \/ ShowToast
    \/ \E i \in ToastIds : DismissTimerFires(i)
    \/ \E i \in ToastIds : ClickDismiss(i)
    \/ AppRenders
    \/ Tick

SpecDisplay == Init /\ [][NextDisplay]_vars

NextLive ==
    \/ \E key \in Keys, ctorThrows \in BOOLEAN : StartLiveSession(key, ctorThrows)
    \/ \E k \in SessionIds : MicGranted(k)
    \/ \E k \in SessionIds : MicDenied(k)
    \/ \E k \in SessionIds, resolves \in BOOLEAN : ConnOpens(k, resolves)
    \/ \E k \in SessionIds, rejects \in BOOLEAN : ConnFails(k, rejects)
    \/ \E k \in SessionIds : ConnErrors(k)
    \/ \E k \in SessionIds : ConnCloses(k)
    \/ ClickStopLive
    \/ Unmount
    \/ \E k \in SessionIds, hasAudio \in BOOLEAN, duration \in Durations,
          interrupted \in BOOLEAN : LiveMessage(k, hasAudio, duration, interrupted)
    \/ \E k \in SessionIds : TimePasses(k)

SpecLive == Init /\ [][NextLive]_vars

Next == NextWav \/ NextB64 \/ NextFrame \/ NextMux \/ NextPackager \/ NextOps \/ NextHandlers
        \/ NextLive \/ NextStudioUI \/ NextHistory \/ NextVideo \/ NextPreview
        \/ NextDisplay

Spec == Init /\ [][Next]_vars

(***************************************************************************)
(* Properties.                                                             *)
(***************************************************************************)
\* the unsigned little-endian 32-bit field at byte offset `offset` (below 2^31)
LEValue(buf, offset) ==
    buf[offset + 1] + 256 * buf[offset + 2] + 65536 * buf[offset + 3]
        + 16777216 * buf[offset + 4]

\* the bytes at offsets offset .. offset + n - 1
Field(buf, offset, n) == SubSeq(buf, offset + 1, offset + n)

\* the number a little-endian field holds, as a Num
FieldNum(buf, offset, n) == Pad(Field(buf, offset, n))

\* r mod 2^32, as a Num
Mod2p32(r) == Pad(SubSeq(r, 1, 4))

\* C1: pcmToWav of n bytes returns 44 + n bytes whose field at bytes 4-7
\* is 36 + n and whose field at bytes 40-43 is n.
C1_WavSizes ==
    wavCalled =>
        LET n == Len(wavIn)
        IN  /\ Len(wavOut) = 44 + n
            /\ LEValue(wavOut, 4) = 36 + n
            /\ LEValue(wavOut, 40) = n

C1_Witness == wavCalled /\ Len(wavIn) = 3 /\ Len(wavOut) = 47

\* the parts of the header that do not hold the sample rate, and the payload
WavFixedLayout ==
    /\ Field(wavOut, 0, 4) = <<82, 73, 70, 70>>
    /\ Field(wavOut, 8, 4) = <<87, 65, 86, 69>>
    /\ Field(wavOut, 12, 4) = <<102, 109, 116, 32>>
    /\ Field(wavOut, 16, 4) = <<16, 0, 0, 0>>
    /\ Field(wavOut, 20, 2) = <<1, 0>>
    /\ Field(wavOut, 22, 2) = <<1, 0>>
    /\ Field(wavOut, 32, 2) = <<2, 0>>
    /\ Field(wavOut, 34, 2) = <<16, 0>>
    /\ Field(wavOut, 36, 4) = <<100, 97, 116, 97>>
    /\ Len(wavOut) = 44 + Len(wavIn)
    /\ \A k \in 1..Len(wavIn) : wavOut[44 + k] = wavIn[k]

\* C2 as stated: the header has 'RIFF', 'WAVE', 'fmt ' with size 16, format 1,
\* 1 channel, sample rate r, byte rate r*2, block align 2, 16 bits per sample,
\* 'data', and the PCM bytes verbatim from offset 44, for every input.
C2_HeaderAsStated ==
    wavCalled =>
        /\ WavFixedLayout
        /\ FieldNum(wavOut, 24, 4) = wavRate
        /\ FieldNum(wavOut, 28, 4) = NumMul(wavRate, 2)

\* C2 amended: as stated, but the sample-rate field holds r mod 2^32 and the
\* byte-rate field holds (r*2) mod 2^32.
C2_HeaderMod32 ==
    wavCalled =>
        /\ WavFixedLayout
        /\ FieldNum(wavOut, 24, 4) = Mod2p32(wavRate)
        /\ FieldNum(wavOut, 28, 4) = Mod2p32(NumMul(wavRate, 2))

\* pcmToWav was called with r = 2^32 + 24000 and two PCM bytes
C2_Witness ==
    wavCalled /\ wavRate = Pad(<<192, 93, 0, 0, 1>>) /\ Len(wavIn) = 2

\* C3: decoding the base64 encoding of b returns exactly b, with decode and
\* with decodeBase64.
C3_Base64RoundTrip ==
    b64Via \in {"decode", "decodeBase64"} =>
        /\ b64Out # InvalidCharacterError
        /\ Len(b64Out) = Len(b64In)
        /\ \A k \in 1..Len(b64In) : b64Out[k] = b64In[k]

C3_Witness ==
    b64Via = "decodeBase64" /\ b64In = <<255, 77>> /\ b64Out = <<255, 77>>

\* C4: the word wrap never draws a body-text line whose measured width
\* exceeds maxWidth.
C4_NoLineTooWide ==
    \A k \in 1..Len(frameDrawn) : measureText(frameDrawn[k].line) <= maxWidth

\* C5: no body-text line is drawn at a y greater than height - 100, the line
\* drawn after the loop included.
C5_NoLineBelowBody ==
    \A k \in 1..Len(frameDrawn) : frameDrawn[k].y <= height - 100

\* position of the first occurrence of entry e in log, 0 when it has none
FirstAt(log, e) ==
    IF \E k \in 1..Len(log) : log[k] = e
    THEN CHOOSE k \in 1..Len(log) : log[k] = e /\ \A j \in 1..(k - 1) : log[j] # e
    ELSE 0

\* e1 and e2 both happened, e1 first
Before(log, e1, e2) == FirstAt(log, e1) > 0 /\ FirstAt(log, e1) < FirstAt(log, e2)

Happened(log, e) == FirstAt(log, e) > 0

\* C6: in one invocation the frame is rendered, then the audio reports
\* can-play-through, and only then are the capture, the audio context and the
\* recorder created; the recorder is started with the playback, never before
\* can-play-through, and the playback never starts without a started recorder.
C6_MuxOrder ==
    \A i \in Invocations :
        LET m == mux[i]
            created == {"captureStream", "new AudioContext", "new MediaRecorder",
                        "recorder.start", "audio.play"}
        IN  /\ Happened(m.log, "canplaythrough") => Before(m.log, "render", "canplaythrough")
            /\ \A e \in created :
                   Happened(m.log, e) => Before(m.log, "canplaythrough", e)
            /\ (m.capture \/ m.audioCtx # "none" \/ m.recorder # "none") =>
                   m.rendered /\ Happened(m.log, "canplaythrough")
            /\ Happened(m.log, "recorder.start") <=> Happened(m.log, "audio.play")
            /\ Happened(m.log, "audio.play") => Before(m.log, "recorder.start", "audio.play")
            /\ m.audio \in {"playRequested", "playing", "blocked", "ended"} =>
                   m.recorder # "none"
            /\ Happened(m.log, "playing") => Before(m.log, "recorder.start", "playing")

C6_Witness ==
    \E i \in Invocations : mux[i].audio = "playing" /\ mux[i].recorder = "recording"

\* C7: the recorder is stopped only when the playback has ended, the promise
\* resolves only after the recorder's stop event, and the resolved buffer is
\* every chunk the recorder delivered, in delivery order.
C7_StopAndCollect ==
    \A i \in Invocations :
        LET m == mux[i]
        IN  /\ m.recorder \in {"stopping", "inactive"} => m.audio = "ended"
            /\ Happened(m.log, "recorder.stop") => Before(m.log, "ended", "recorder.stop")
            /\ m.promise = "resolved" =>
                   /\ m.recorder = "inactive"
                   /\ Before(m.log, "stop", "resolve")
                   /\ m.result = m.emitted

C7_Witness ==
    \E i \in Invocations : mux[i].promise = "resolved" /\ Len(mux[i].result) >= 2

\* C8: when the audio fails to load or decode the muxer rejects, at that
\* moment no capture, audio context or recorder has been started, and the
\* promise is settled exactly once.
C8_RejectBeforeCapture ==
    \A i \in Invocations :
        LET m == mux[i]
        IN  /\ m.audio = "error" =>
                   /\ m.promise = "rejected"
                   /\ ~m.capture
                   /\ m.audioCtx = "none"
                   /\ m.recorder = "none"
            /\ m.settles <= 1

\* C9: once an invocation has settled, its object URL has been revoked and
\* its audio context has been closed.
C9_HandlesReleased ==
    \A i \in Invocations :
        mux[i].promise \in {"resolved", "rejected"} =>
            /\ mux[i].url # "live"
            /\ mux[i].audioCtx # "open"

\* C10: every started invocation eventually settles.
C10_EventuallySettles ==
    \A i \in Invocations :
        (mux[i].promise = "pending") ~> (mux[i].promise \in {"resolved", "rejected"})

\* r * 2 fits the 32-bit byte-rate field (r < 2^31)
FitsHeader(r) == NumMul(r, 2) = Mod2p32(NumMul(r, 2))

\* C17 as stated: the sample-rate field decodes to r and the byte-rate field
\* to 2*r, without wrap-around, for any positive integer r.
C17_NoWrapAsStated ==
    wavCalled =>
        /\ FieldNum(wavOut, 24, 4) = wavRate
        /\ FieldNum(wavOut, 28, 4) = NumMul(wavRate, 2)

\* C17 amended: any positive integer r is accepted; the two fields hold r and
\* 2*r modulo 2^32, which are r and 2*r themselves when r < 2^31.
C17_RateFieldsMod32 ==
    wavCalled =>
        /\ Len(wavOut) = 44 + Len(wavIn)
        /\ Field(wavOut, 24, 4) = SubSeq(wavRate, 1, 4)
        /\ Field(wavOut, 28, 4) = SubSeq(NumMul(wavRate, 2), 1, 4)
        /\ FitsHeader(wavRate) =>
               /\ FieldNum(wavOut, 24, 4) = wavRate
               /\ FieldNum(wavOut, 28, 4) = NumMul(wavRate, 2)

\* pcmToWav was called with r = 2^31: the byte-rate field holds 0
C17_Witness ==
    /\ wavCalled
    /\ wavRate = Pad(<<0, 0, 0, 128>>)
    /\ Field(wavOut, 24, 4) = <<0, 0, 0, 128>>
    /\ Field(wavOut, 28, 4) = <<0, 0, 0, 0>>

(***************************************************************************)
(* The packager and the player.                                            *)
(***************************************************************************)
StartsWith(q, prefix) == Len(q) >= Len(prefix) /\ SubSeq(q, 1, Len(prefix)) = prefix
EndsWith(q, suffix) ==
    Len(q) >= Len(suffix) /\ SubSeq(q, Len(q) - Len(suffix) + 1, Len(q)) = suffix

\* the entries of an archive that are files, by position
Files(zip) == {k \in 1..Len(zip) : ~zip[k].dir}
WavEntries(zip) ==
    {k \in Files(zip) : StartsWith(zip[k].name, StrWavAudio \o <<"/">>)}
VideoEntries(zip) ==
    {k \in Files(zip) : StartsWith(zip[k].name, StrMp4Video \o <<"/">>)}
RootEntries(zip) == {k \in Files(zip) : \A c \in 1..Len(zip[k].name) : zip[k].name[c] # "/"}

\* a name carries the extension of the container its content is typed as
ExtensionMatches(name, type) ==
    /\ type \in {"video/mp4", "video/webm"}
    /\ EndsWith(name, <<".", "m", "p", "4">>) <=> type = "video/mp4"
    /\ EndsWith(name, <<".", "w", "e", "b", "m">>) <=> type = "video/webm"

\* the archive being built and the archives offered
Archives == {archives[a] : a \in 1..Len(archives)}
ArchivesAndZip == Archives \cup {exportTask.zip}

\* C11: the Blob an invocation resolves with is typed video/mp4 exactly when
\* the host supports video/mp4 recording and video/webm otherwise; the name
\* of every video entry of a bulk export and of every single-record download
\* ends in .mp4 exactly when its content is typed video/mp4 and in .webm
\* exactly when it is typed video/webm.
C11_ExtensionMatchesContainer ==
    /\ \A i \in AppInvocations :
           mux[i].promise = "resolved" =>
               mux[i].blobType = IF mux[i].hostMp4 THEN "video/mp4" ELSE "video/webm"
    /\ \A zip \in ArchivesAndZip : \A k \in VideoEntries(zip) :
           ExtensionMatches(zip[k].name, zip[k].data.type)
    /\ \A d \in 1..Len(saved) : ExtensionMatches(saved[d].name, saved[d].blob.type)

\* an archive offered holds an mp4 video and a download was saved as webm
C11_Witness ==
    /\ \E zip \in Archives : \E k \in VideoEntries(zip) :
           zip[k].data.type = "video/mp4" /\ EndsWith(zip[k].name, StrMp4)
    /\ \E d \in 1..Len(saved) :
           saved[d].blob.type = "video/webm" /\ EndsWith(saved[d].name, StrWebm)

\* C12: an archive produced by a bulk export of k records holds exactly k
\* WAV entries, k video entries and one manifest at the root, 2k + 1 files in
\* all (the two folders are its only other entries), under pairwise distinct
\* names, and the WAV entry of record r holds the record's audio.
C12_ArchiveEntries ==
    \A zip \in Archives :
        LET k == Len(exportTask.snapshot)
        IN  /\ Cardinality(WavEntries(zip)) = k
            /\ Cardinality(VideoEntries(zip)) = k
            /\ Cardinality(RootEntries(zip)) = 1
            /\ \A e \in RootEntries(zip) : zip[e].name = StrManifestTxt
            /\ Cardinality(Files(zip)) = 2 * k + 1
            /\ Len(zip) = 2 * k + 3
            /\ \A e1, e2 \in 1..Len(zip) : zip[e1].name = zip[e2].name => e1 = e2
            /\ \A r \in 1..k : \E e \in WavEntries(zip) :
                   /\ zip[e].data = exportTask.snapshot[r].blob
                   /\ EndsWith(zip[e].name, <<".", "w", "a", "v">>)

\* an archive was produced from two records with the same voice label (and the
\* same first 8 id characters)
C12_Witness ==
    /\ archives # <<>>
    /\ Len(exportTask.snapshot) >= 2
    /\ exportTask.snapshot[1].voiceId = exportTask.snapshot[2].voiceId
    /\ slice(exportTask.snapshot[1].id, 8) = slice(exportTask.snapshot[2].id, 8)

\* the records of a bulk export, by loop index
ExportIndexes == 0..(MaxRecords - 1)

\* the toasts of the bulk export
ExportToasts(type) ==
    {n \in 1..Len(toasts) :
        /\ toasts[n].type = type
        /\ toasts[n].message \in {"Bulk export failed during video synthesis.",
                                  "Studio bundle export completed."}}

\* handleExportAll was called with an empty history
CalledOnEmpty ==
    \/ exportTask.pc = "returned"
    \/ exportTask.pc \in {"awaitZip", "done"} /\ exportTask.snapshot = <<>>

\* C13 as stated: a bulk export invoked with an empty history produces an
\* archive that holds only an empty manifest file.
C13_EmptyExportArchive ==
    (CalledOnEmpty /\ exportTask.pc \in {"returned", "done"}) =>
        /\ Len(archives) = 1
        /\ \A e \in Files(archives[1]) :
               /\ archives[1][e].name = StrManifestTxt
               /\ archives[1][e].data.parts = <<>>
        /\ Cardinality(Files(archives[1])) = 1

\* C13 amended: a bulk export invoked with an empty history returns at once:
\* no archive is built or offered, no muxer invocation is made, nothing is
\* notified, and isExporting and the progress stay as they were.
C13_EmptyExportNoOp ==
    CalledOnEmpty =>
        /\ exportTask.pc = "returned"
        /\ exportTask.zip = <<>>
        /\ archives = <<>>
        /\ ~isExporting
        /\ exportProgress = [current |-> 0, total |-> 0]
        /\ exportTask.reported = <<>>
        /\ ExportToasts("success") \cup ExportToasts("error") = {}
        /\ \A j \in ExportIndexes : mux[ExportSlot(j)].promise = "unstarted"

\* handleExportAll was called with an empty history and has returned
C13_Witness == exportTask.pc = "returned" /\ exportTask.snapshot = <<>> /\ archives = <<>>

\* C14: when the video derivation of record j fails (its promise rejects),
\* the export ends there: no archive is built to the end or offered, no
\* later record is processed, exactly one failure toast and no success toast
\* is shown for the export, and isExporting is reset.
C14_FailureAborts ==
    \A j \in ExportIndexes :
        mux[ExportSlot(j)].promise = "rejected" =>
            \/ exportTask.pc = "awaitMux" /\ exportTask.i = j
            \/ /\ exportTask.pc = "failed"
               /\ exportTask.i = j
               /\ archives = <<>>
               /\ \A e \in Files(exportTask.zip) : exportTask.zip[e].name # StrManifestTxt
               /\ \A l \in ExportIndexes : l > j => mux[ExportSlot(l)].promise = "unstarted"
               /\ Cardinality(VideoEntries(exportTask.zip)) = j
               /\ Cardinality(ExportToasts("error")) = 1
               /\ ExportToasts("success") = {}
               /\ ~isExporting

\* the video of the first of two records failed and the export was aborted
C14_Witness ==
    /\ exportTask.pc = "failed"
    /\ exportTask.i = 0
    /\ Len(exportTask.snapshot) >= 2
    /\ mux[ExportSlot(0)].promise = "rejected"

\* C15: within a bulk export the invocation for record j + 1 is started only
\* after the invocation for record j has settled, and at most one invocation
\* of the export is pending at any moment.
C15_OneAtATime ==
    /\ \A j \in ExportIndexes :
           (j + 1 \in ExportIndexes /\ mux[ExportSlot(j + 1)].promise # "unstarted") =>
               mux[ExportSlot(j)].promise \in {"resolved", "rejected"}
    /\ Cardinality({j \in ExportIndexes : mux[ExportSlot(j)].promise = "pending"}) <= 1
    /\ \A j \in ExportIndexes :
           mux[ExportSlot(j)].promise # "unstarted" =>
               /\ j < Len(exportTask.snapshot)
               /\ j <= exportTask.i

\* the invocation for the second record is pending, the first has resolved
C15_Witness ==
    /\ mux[ExportSlot(0)].promise = "resolved"
    /\ mux[ExportSlot(1)].promise = "pending"
    /\ exportTask.i = 1

\* C19: while a bulk export of k records runs, the progress has total = k and
\* a completed count within 0..k; the counts reported are 0, 1, 2, ... in
\* this order, each i reported when exactly the first i records have their
\* WAV and their video in the archive; the finally block's reset is the last
\* report.
C19_ProgressCounts ==
    LET k == Len(exportTask.snapshot)
        reported == exportTask.reported
        running == exportTask.pc \in {"awaitMux", "awaitZip"}
    IN  /\ isExporting <=> running
        /\ running =>
               /\ exportProgress = reported[Len(reported)]
               /\ exportProgress.total = k
               /\ exportProgress.current \in 0..k
               /\ Cardinality(VideoEntries(exportTask.zip)) = exportProgress.current
               /\ Cardinality(WavEntries(exportTask.zip)) >= exportProgress.current
               /\ \A n \in 1..Len(reported) : reported[n] = [current |-> n - 1, total |-> k]
        /\ exportTask.pc \in {"done", "failed"} =>
               /\ exportProgress = [current |-> 0, total |-> 0]
               /\ reported[Len(reported)] = [current |-> 0, total |-> 0]
               /\ \A n \in 1..(Len(reported) - 1) : reported[n] = [current |-> n - 1, total |-> k]
        /\ exportTask.pc = "done" => Len(reported) = k + 2

\* an export of two records reports 2 of 2 while the archive is generated
C19_Witness ==
    /\ isExporting
    /\ exportTask.pc = "awaitZip"
    /\ exportProgress = [current |-> 2, total |-> 2]
    /\ Len(exportTask.reported) = 3

\* C18: at no moment are two muxer invocations of the application in flight
\* (started and not yet settled), the player's video download included.
C18_NoParallelInvocations ==
    Cardinality({i \in AppInvocations : mux[i].promise = "pending"}) <= 1

\* C20: every failure of a user-triggered operation is notified: there is an
\* error toast for each failure that occurred.
C20_EveryFailureNotified ==
    Len(failures) <= Cardinality({n \in 1..Len(toasts) : toasts[n].type = "error"})

(***************************************************************************)
(* Properties of the handlers of the remote operations.                    *)
(***************************************************************************)
\* the last step was a handler call whose required input was empty
RequiredInputEmpty ==
    \/ lastCall.op = "speech" /\ IsBlank(lastCall.text)
    \/ lastCall.op = "image" /\ IsBlank(lastCall.text) /\ ~lastCall.has
    \/ lastCall.op = "cinema" /\ ~lastCall.has

\* C21: a call of handleGenerate with blank text, of the image handler with
\* a blank prompt and no reference, or of the cinema handler without a source
\* image shows exactly one error toast and changes nothing else: no service
\* call is made, no request is issued, and the busy flags, the result lists
\* and the history stay as they were.
C21_EmptyInputRejected ==
    RequiredInputEmpty =>
        /\ Len(toasts) = Len(lastCall.before.toasts) + 1
        /\ SubSeq(toasts, 1, Len(toasts) - 1) = lastCall.before.toasts
        /\ toasts[Len(toasts)].type = "error"
        /\ busy = lastCall.before.busy
        /\ calls = lastCall.before.calls
        /\ remote = lastCall.before.remote
        /\ results = lastCall.before.results
        /\ history = lastCall.before.history

\* handleGenerate was called with a whitespace-only text while an image
\* generation was in flight, and showed its validation toast
C21_Witness ==
    /\ lastCall.op = "speech"
    /\ lastCall.text = <<" ", "\n", "\t">>
    /\ busy["image"]
    /\ toasts[Len(toasts)].message = "Validation Error: Please enter some text to generate audio."

\* C22: every operation that failed for want of a credential showed a
\* missing-credential error, had issued no request and had acquired no
\* audio context and no microphone stream.
MissingKeyMessages == {MissingKeyMessage(op) : op \in StudioOps \ {"chat"}}

C22_MissingCredentialFailsAtOnce ==
    \A i \in 1..Len(denied) :
        /\ denied[i].message \in MissingKeyMessages
        /\ ~denied[i].requested
        /\ denied[i].acquired = {}

(***************************************************************************)
(* Properties of the live voice session.                                   *)
(***************************************************************************)
\* C25: once stopLiveSession has run, and until startLiveSession is called
\* again, no session, stream or audio context is open, none is referenced,
\* and the component is not in live mode.
C25_StopReleasesEverything ==
    sinceStop =>
        /\ openMedia = {}
        /\ liveSessionRef = 0 /\ streamRef = 0
        /\ audioContextInRef = 0 /\ audioContextOutRef = 0
        /\ ~isLiveMode

ChunksAt == {i \in 1..Len(scheduled) : scheduled[i].kind = "chunk"}

\* the chunk scheduled before chunk i in the same session with no
\* interruption in between, 0 when there is none
Previous(i) ==
    LET before == {j \in ChunksAt : j < i /\ scheduled[j].session = scheduled[i].session
                       /\ \A m \in (j + 1)..(i - 1) : scheduled[m].kind = "chunk"}
    IN  IF before = {} THEN 0 ELSE CHOOSE j \in before : \A m \in before : m <= j

\* C26: every chunk starts no earlier than the output context's current
\* time and no earlier than the end of the chunk scheduled before it; the
\* first chunk of a session, and the first after an interruption, starts at
\* the current time.
C26_ChunksInOrderFromNow ==
    \A i \in ChunksAt :
        /\ scheduled[i].at >= scheduled[i].now
        /\ IF Previous(i) = 0
           THEN scheduled[i].at = scheduled[i].now
           ELSE scheduled[i].at >= scheduled[Previous(i)].at + scheduled[Previous(i)].duration

\* C30: isConnecting and isLiveMode are never both true, live mode is only
\* entered while connecting, and after stopLiveSession ran both flags are
\* false until startLiveSession is called again.
C30_FlagStateMachine ==
    /\ ~(isConnecting /\ isLiveMode)
    /\ \A i \in 1..Len(liveEntries) : liveEntries[i]
    /\ sinceStop => ~isConnecting /\ ~isLiveMode

(***************************************************************************)
(* Properties of the triggers.                                             *)
(***************************************************************************)
InFlight(op) == {n \in 1..Len(calls) : calls[n].op = op}

\* C27: speech synthesis, image generation, upscale and cinema generation
\* each have at most one invocation in flight, and their busy flag is true
\* exactly while one is.
C27_OneInFlightPerFlag ==
    \A op \in {"speech", "image", "upscale", "cinema"} :
        /\ Cardinality(InFlight(op)) <= 1
        /\ busy[op] <=> InFlight(op) # {}

(***************************************************************************)
(* Properties of the session history.                                      *)
(***************************************************************************)
HistoryIds == {history[i].id : i \in 1..Len(history)}
ListedIds == {Listed[i].id : i \in 1..Len(Listed)}

\* a removal takes exactly the named record out, revokes its URL and keeps
\* the other records and their order
RemovalExact ==
    lastRemoved # NoRemoval =>
        /\ \E i \in 1..Len(lastRemoved.before) :
              /\ lastRemoved.before[i].id = lastRemoved.id
              /\ history = SubSeq(lastRemoved.before, 1, i - 1)
                           \o SubSeq(lastRemoved.before, i + 1, Len(lastRemoved.before))
        /\ lastRemoved.id \notin objectUrls

\* no record has left the history with its URL not revoked
RevokedOnLeaving ==
    \A n \in 1..made : IdOf(n) \in HistoryIds \/ IdOf(n) \notin objectUrls

\* C23, as stated: a removal is exact and revokes, every record of the
\* history, the most recent one included, has a Delete button, and no record
\* leaves the history with its URL not revoked.
C23_EveryRecordRemovable ==
    /\ RemovalExact
    /\ RevokedOnLeaving
    /\ HistoryIds \subseteq ListedIds

(***************************************************************************)
(* Properties of generateVideo.                                            *)
(***************************************************************************)
VideoSettled == video.pc = "settled"

C28_StoppedPreviewStaysSilent ==
    /\ previewStopped => playing = {}
    /\ Cardinality(playing) <= 1

(***************************************************************************)
(* Properties of the displayed toasts.                                     *)
(***************************************************************************)
\* no toast is displayed twice
DisplayedOnce ==
    \A i, j \in 1..Len(displayed) : displayed[i].id = displayed[j].id => i = j

\* a dismissal takes out the toast with the id and no other
DismissalExact ==
    lastDismissed # NoDismissal =>
        \E i \in 1..Len(lastDismissed.before) :
            /\ lastDismissed.before[i].id = lastDismissed.id
            /\ [k \in 1..Len(displayed) |-> displayed[k].id]
               = [k \in 1..(Len(lastDismissed.before) - 1) |->
                     lastDismissed.before[IF k < i THEN k ELSE k + 1].id]

\* C29, as stated: a toast is displayed once, a dismissal removes only the
\* toast with that id, and no toast stays longer than its dismiss timer
\* runs.
C29_ToastsDismissedInTime ==
    /\ DisplayedOnce
    /\ DismissalExact
    /\ \A i \in 1..Len(displayed) : displayed[i].age <= DismissAfter

====
